---- MODULE Spec2Model ----
(***************************************************************************)
(* Model of the image operation pipeline of the photo-editing backend:     *)
(*   app/schemas/edit.py          the operation model and its validation   *)
(*   app/services/image_service.py process_image and the executors         *)
(*   app/routers/edits.py         preview_edit, commit_edit, download_edit *)
(*                                                                         *)
(* Floats (degrees, amount, intensity) are kept as integers in tenths.     *)
(* A working image is its size, its colour mode and its pixels: their      *)
(* values where these are known and computed, else the history of the      *)
(* transformations that produced them from a source.                       *)
(***************************************************************************)
EXTENDS Integers, Sequences, FiniteSets, TLC

VARIABLES
    rq,        \* per worker: the request being served and the handler's locals
    blobs,     \* blob storage of the originals container: blob name -> bytes
    photo,     \* the Photo row of the database
    now,       \* the clock read by datetime.utcnow()
    runs,      \* completed process_image invocations: arguments and outcome
    served,    \* number of requests received so far
    host       \* the machine the process runs on: platform and fonts

vars == <<rq, blobs, photo, now, runs, served, host>>

----------------------------------------------------------------------------
(* JSON values of a request body.  A field that the body does not carry is *)
(* Absent; an explicit null is JNull.                                      *)

Absent == [k |-> "absent"]
JNull == [k |-> "null"]
JInt(n) == [k |-> "int", v |-> n]
JFloat(t) == [k |-> "float", v |-> t]
JStr(s) == [k |-> "str", v |-> s]
JChars(cs) == [k |-> "str", chars |-> cs]
JText(n) == [k |-> "str", len |-> n]

\* pydantic's int: a JSON integer, or a float without fractional part
IntOk(v) == v.k = "int" \/ (v.k = "float" /\ v.v % 10 = 0)
IntVal(v) == IF v.k = "int" THEN v.v ELSE v.v \div 10
\* pydantic's float, in tenths
FloatOk(v) == v.k \in {"int", "float"}
FloatVal(v) == IF v.k = "int" THEN v.v * 10 ELSE v.v

----------------------------------------------------------------------------
(* app/schemas/edit.py                                                     *)

OperationType == {"crop", "rotate", "resize", "adjust", "filter", "text"}
AdjustmentType ==
    {"brightness", "contrast", "saturation", "sharpness", "temperature",
     "tint", "exposure"}
FilterType == {"blur", "sepia", "grayscale", "vignette"}
OutputFormats == {"jpeg", "png", "webp"}

TextMinLen == 1
TextMaxLen == 500
FontSizeMin == 10
FontSizeMax == 200
FontSizeDefault == 32
IntensityMin == 0
IntensityMax == 10
IntensityDefault == 10
QualityMin == 1
QualityMax == 100
QualityDefault == 85

HexDigits ==
    {"0", "1", "2", "3", "4", "5", "6", "7", "8", "9",
     "a", "b", "c", "d", "e", "f", "A", "B", "C", "D", "E", "F"}
ColorDefault == <<"#", "F", "F", "F", "F", "F", "F">>

\* Field(pattern="^#?[0-9A-Fa-f]{6}$"): the leading '#' optional
ColorPatternOptionalHash(cs) ==
    \/ Len(cs) = 7 /\ cs[1] = "#" /\ \A i \in 2..7 : cs[i] \in HexDigits
    \/ Len(cs) = 6 /\ \A i \in 1..6 : cs[i] \in HexDigits

\* Field(pattern="^#[0-9A-Fa-f]{6}$")
ColorPattern(cs) ==
    Len(cs) = 7 /\ cs[1] = "#" /\ \A i \in 2..7 : cs[i] \in HexDigits

\* the tag declared as op: OperationType = OperationType.X, not as a Literal
EnumOp(v, tag) == v.k = "absent" \/ (v.k = "str" /\ v.v \in OperationType)

\* op: Literal[OperationType.X] = OperationType.X : a body without the tag
\* gets the member's own tag
LiteralOp(v, tag) == v.k = "absent" \/ (v.k = "str" /\ v.v = tag)

CropOpValid(o) ==
    /\ LiteralOp(o.op, "crop")
    /\ IntOk(o.x) /\ IntVal(o.x) >= 0
    /\ IntOk(o.y) /\ IntVal(o.y) >= 0
    /\ IntOk(o.width) /\ IntVal(o.width) > 0
    /\ IntOk(o.height) /\ IntVal(o.height) > 0

CropOp(o) ==
    [op |-> "crop", x |-> IntVal(o.x), y |-> IntVal(o.y),
     width |-> IntVal(o.width), height |-> IntVal(o.height)]

RotateOpValid(o) == LiteralOp(o.op, "rotate") /\ FloatOk(o.degrees)

RotateOp(o) == [op |-> "rotate", degrees |-> FloatVal(o.degrees)]

\* Optional[int] = Field(None, gt=0)
OptionalDimOk(v) == v.k \in {"absent", "null"} \/ (IntOk(v) /\ IntVal(v) > 0)
OptionalDim(v) == IF v.k \in {"absent", "null"} THEN JNull ELSE JInt(IntVal(v))

\* values.get(name): None for a field that values does not hold
ValuesGet(values, name) ==
    IF name \in DOMAIN values THEN values[name] ELSE JNull

\* validate_dimensions(cls, v, values): TRUE when it returns v, FALSE when
\* it raises ValueError
ValidateDimensions(v, values) ==
    ~(v.k = "null" /\ ValuesGet(values, "height").k = "null")

\* @validator('width') is declared without always=True: it is not run on the
\* default of an absent width.  It is run on a width the body carries, null
\* included, once the field's own constraint passed, and values then holds
\* the fields declared before width, which is op alone.
ResizeOpValid(o) ==
    /\ LiteralOp(o.op, "resize")
    /\ OptionalDimOk(o.width)
    /\ o.width.k # "absent" =>
           ValidateDimensions(OptionalDim(o.width), [op |-> JStr("resize")])
    /\ OptionalDimOk(o.height)

ResizeOp(o) ==
    [op |-> "resize", width |-> OptionalDim(o.width),
     height |-> OptionalDim(o.height)]

AdjustOpValid(o) ==
    /\ LiteralOp(o.op, "adjust")
    /\ o.type.k = "str" /\ o.type.v \in AdjustmentType
    /\ FloatOk(o.amount)

AdjustOp(o) ==
    [op |-> "adjust", type |-> o.type.v, amount |-> FloatVal(o.amount)]

\* intensity: float = Field(1.0, ge=0.0, le=1.0)
IntensityOkNoUpper(v) ==
    v.k = "absent" \/ (FloatOk(v) /\ FloatVal(v) >= IntensityMin)

IntensityOk(v) ==
    \/ v.k = "absent"
    \/ FloatOk(v) /\ FloatVal(v) >= IntensityMin /\ FloatVal(v) <= IntensityMax

FilterOpValid(o) ==
    /\ LiteralOp(o.op, "filter")
    /\ o.type.k = "str" /\ o.type.v \in FilterType
    /\ IntensityOk(o.intensity)

FilterOp(o) ==
    [op |-> "filter", type |-> o.type.v,
     intensity |-> IF o.intensity.k = "absent" THEN IntensityDefault
                   ELSE FloatVal(o.intensity)]

ColorOk(v) == v.k = "absent" \/ (v.k = "str" /\ ColorPattern(v.chars))

TextOpValid(o) ==
    /\ LiteralOp(o.op, "text")
    /\ o.text.k = "str" /\ o.text.len >= TextMinLen /\ o.text.len <= TextMaxLen
    /\ \/ o.font_size.k = "absent"
       \/ /\ IntOk(o.font_size)
          /\ IntVal(o.font_size) >= FontSizeMin
          /\ IntVal(o.font_size) <= FontSizeMax
    /\ ColorOk(o.color)
    /\ IntOk(o.x)
    /\ IntOk(o.y)
    /\ o.font_family.k \in {"absent", "str"}

TextOp(o) ==
    [op |-> "text", text |-> o.text.len,
     font_size |-> IF o.font_size.k = "absent" THEN FontSizeDefault
                   ELSE IntVal(o.font_size),
     color |-> IF o.color.k = "absent" THEN ColorDefault ELSE o.color.chars,
     x |-> IntVal(o.x), y |-> IntVal(o.y),
     font_family |-> IF o.font_family.k = "absent" THEN "Arial"
                     ELSE o.font_family.v]

\* Operation = Union[CropOp, RotateOp, ResizeOp, AdjustOp, FilterOp, TextOp]:
\* the model objects that some member of the union builds from the body o.
\* With the tag given at most one member accepts; without it which accepting
\* member the union picks depends on the pydantic release, so all are kept.
Operation(o) ==
    (IF CropOpValid(o) THEN {CropOp(o)} ELSE {})
    \cup (IF RotateOpValid(o) THEN {RotateOp(o)} ELSE {})
    \cup (IF ResizeOpValid(o) THEN {ResizeOp(o)} ELSE {})
    \cup (IF AdjustOpValid(o) THEN {AdjustOp(o)} ELSE {})
    \cup (IF FilterOpValid(o) THEN {FilterOp(o)} ELSE {})
    \cup (IF TextOpValid(o) THEN {TextOp(o)} ELSE {})

\* output_format: Literal["jpeg", "png", "webp"] = "jpeg"
OutputFormatOk(v) ==
    v.k = "absent" \/ (v.k = "str" /\ v.v \in OutputFormats)

\* quality: int = Field(85, ge=1, le=100)
QualityOk(v) ==
    \/ v.k = "absent"
    \/ IntOk(v) /\ IntVal(v) >= QualityMin /\ IntVal(v) <= QualityMax

\* the lists of model objects that List[Operation] builds from a JSON list
RECURSIVE OperationLists(_)
OperationLists(ws) ==
    IF ws = <<>> THEN {<<>>}
    ELSE {<<h>> \o t : h \in Operation(Head(ws)), t \in OperationLists(Tail(ws))}

\* OperationGraph: the model objects the request body g validates to;
\* empty when validation fails (FastAPI then answers 422 without calling
\* the endpoint)
OperationGraph(g) ==
    IF /\ g.photo_id.k = "str"
       /\ OutputFormatOk(g.output_format)
       /\ QualityOk(g.quality)
    THEN {[photo_id |-> g.photo_id.v,
           operations |-> ops,
           output_format |-> IF g.output_format.k = "absent" THEN "jpeg"
                             ELSE g.output_format.v,
           quality |-> IF g.quality.k = "absent" THEN QualityDefault
                       ELSE IntVal(g.quality)] :
          ops \in OperationLists(g.operations)}
    ELSE {}

----------------------------------------------------------------------------
(* Images and encoded bytes (Pillow)                                       *)

Modes == {"RGB", "RGBA", "P", "L", "LA"}

\* Python's None for a local that holds nothing
None == [k |-> "none"]

\* a decoded image whose pixels are those of source src, untouched: its
\* pixels are known as the history of what was done to the source's
SourceImage(src, w, h, mode) ==
    [width |-> w, height |-> h, mode |-> mode,
     px |-> [src |-> src, hist |-> <<>>]]

Ok(img) == [ok |-> TRUE, img |-> img]
Raise(e) == [ok |-> FALSE, exc |-> e]

\* bytes that no decoder recognises
Corrupt == [valid |-> FALSE]

\* str.upper() on the format names in use
Upper(s) ==
    CASE s \in {"jpeg", "JPEG", "Jpeg"} -> "JPEG"
      [] s \in {"png", "PNG"} -> "PNG"
      [] s \in {"webp", "WEBP"} -> "WEBP"
      [] OTHER -> s

\* Image.open(io.BytesIO(image_bytes))
ImageOpen(bytes) ==
    IF bytes.valid THEN Ok(bytes.img) ELSE Raise("UnidentifiedImageError")

Bands(mode) ==
    CASE mode = "RGB" -> 3 [] mode = "RGBA" -> 4 [] mode = "LA" -> 2
      [] OTHER -> 1

\* the band that holds alpha, 0 when the mode has none
AlphaBand(mode) ==
    CASE mode = "RGBA" -> 4 [] mode = "LA" -> 2 [] OTHER -> 0

----------------------------------------------------------------------------
(* Pixel data (Pillow).  An image whose pixel values are known holds them  *)
(* as rows of pixels, a pixel being the tuple of its band values; pixel    *)
(* (x, y), counted from 0, is at column x + 1 of row y + 1.                *)

Concrete(img) == "grid" \in DOMAIN img.px

\* the decoded image with the given rows of pixels
PixelImage(mode, rows) ==
    [width |-> Len(rows[1]), height |-> Len(rows), mode |-> mode,
     px |-> [grid |-> rows]]

\* img.getpixel((x, y))
GetPixel(img, x, y) == img.px.grid[y + 1][x + 1]

\* the pixel of a freshly allocated image: zero in every band, which is
\* black, transparent where the mode has alpha, and the first palette entry
\* in a palette image
ZeroPixel(mode) == [b \in 1..Bands(mode) |-> 0]

Clip8(v) == IF v <= 0 THEN 0 ELSE IF v >= 255 THEN 255 ELSE v

\* round() of the non-negative quotient num / den: to nearest, ties to even
RoundHalfEven(num, den) ==
    LET q == num \div den
        r == num % den
    IN IF 2 * r > den \/ (2 * r = den /\ q % 2 = 1) THEN q + 1 ELSE q

\* convert('L') of one pixel: ITU-R 601-2 luma in 16.16 fixed point
Luma(p, mode) ==
    IF mode \in {"RGB", "RGBA"}
    THEN (p[1] * 19595 + p[2] * 38470 + p[3] * 7471 + 32768) \div 65536
    ELSE p[1]

\* img.crop(box): a new image of the size of the box, zero-filled, onto
\* which the part of img inside the box is pasted
CropPixelsWhite(img, op) ==
    [row \in 1..op.height |-> [col \in 1..op.width |->
         LET i == col - 1
             j == row - 1
         IN IF op.x + i < img.width /\ op.y + j < img.height
            THEN GetPixel(img, op.x + i, op.y + j)
            ELSE [b \in 1..Bands(img.mode) |-> 255]]]

CropPixels(img, op) ==
    [row \in 1..op.height |-> [col \in 1..op.width |->
         LET i == col - 1
             j == row - 1
         IN IF op.x + i < img.width /\ op.y + j < img.height
            THEN GetPixel(img, op.x + i, op.y + j)
            ELSE ZeroPixel(img.mode)]]

\* a rotate that turns the other way round
RotatePixelsCounter(img, angle) ==
    LET W == img.width
        H == img.height
    IN CASE angle = 0 -> img.px.grid
         [] angle = 1800 ->
              [row \in 1..H |-> [col \in 1..W |->
         LET x == col - 1
             y == row - 1
         IN GetPixel(img, W - 1 - x, H - 1 - y)]]
         [] angle = 900 ->
              [row \in 1..W |-> [col \in 1..H |->
         LET x == col - 1
             y == row - 1
         IN GetPixel(img, y, H - 1 - x)]]
         [] angle = 2700 ->
              [row \in 1..W |-> [col \in 1..H |->
         LET x == col - 1
             y == row - 1
         IN GetPixel(img, W - 1 - y, x)]]

\* img.rotate(angle, expand=True) for angle % 360 in 0, 90, 180, 270, which
\* rotate() hands to transpose(): angles count counter-clockwise, 270 is
\* Transpose.ROTATE_270
RotatePixels(img, angle) ==
    LET W == img.width
        H == img.height
    IN CASE angle = 0 -> img.px.grid
         [] angle = 1800 ->
              [row \in 1..H |-> [col \in 1..W |->
         LET x == col - 1
             y == row - 1
         IN GetPixel(img, W - 1 - x, H - 1 - y)]]
         [] angle = 2700 ->
              [row \in 1..W |-> [col \in 1..H |->
         LET x == col - 1
             y == row - 1
         IN GetPixel(img, y, H - 1 - x)]]
         [] angle = 900 ->
              [row \in 1..W |-> [col \in 1..H |->
         LET x == col - 1
             y == row - 1
         IN GetPixel(img, W - 1 - y, x)]]

\* Image.blend(im1, im2, alpha) on one band value, alpha in tenths:
\* im1 + alpha * (im2 - im1) cast to a byte, clipped when alpha is outside
\* 0..1; alpha 0.0 and 1.0 copy im1 and im2.  Exact for the alphas 0.5 and
\* 2.0, which single precision holds exactly.
BlendBand(v1, v2, alpha) ==
    LET t == 10 * v1 + alpha * (v2 - v1) IN
    IF alpha = 0 THEN v1
    ELSE IF alpha = 10 THEN v2
    ELSE IF alpha \in 0..10 THEN t \div 10
    ELSE IF t <= 0 THEN 0
    ELSE IF t >= 2550 THEN 255
    ELSE t \div 10

BlendPixel(p1, p2, alpha) ==
    [b \in DOMAIN p1 |-> BlendBand(p1[b], p2[b], alpha)]

\* sum of the luma of the first n pixels of img in row order
RECURSIVE SumLuma(_, _)
SumLuma(img, n) ==
    IF n = 0 THEN 0
    ELSE Luma(GetPixel(img, (n - 1) % img.width, (n - 1) \div img.width),
              img.mode)
         + SumLuma(img, n - 1)

\* int(ImageStat.Stat(image.convert("L")).mean[0] + 0.5)
MeanLuma(img) ==
    LET n == img.width * img.height IN (2 * SumLuma(img, n) + n) \div (2 * n)

\* the degenerate image an ImageEnhance class blends with, at one pixel p:
\* black for Brightness, the mean gray for Contrast, the pixel's own gray
\* for Color; the alpha band is that of the image
DegeneratePixel(img, type, p) ==
    [b \in DOMAIN p |->
        IF b = AlphaBand(img.mode) THEN p[b]
        ELSE CASE type = "brightness" -> 0
               [] type = "contrast" -> MeanLuma(img)
               [] type = "saturation" -> Luma(p, img.mode)]

\* ImageEnhance.X(img).enhance(amount) = Image.blend(degenerate, img, amount)
EnhancePixels(img, type, amount) ==
    [row \in 1..img.height |-> [col \in 1..img.width |->
         LET x == col - 1
             y == row - 1
         IN LET p == GetPixel(img, x, y) IN
            IF amount = 10 THEN p
            ELSE BlendPixel(DegeneratePixel(img, type, p), p, amount)]]

\* (band value, multiplier in hundredths) for which the double product
\* i * (1 + factor) lands just below the tie that the exact product is, for
\* the amounts -1.0, -0.5, 0.5, 1.0: 45 * 0.7 is 31.499999999999996
PointBelow ==
    {<<45, 70>>, <<85, 70>>, <<165, 70>>,
     <<50, 115>>, <<90, 115>>, <<170, 115>>, <<210, 115>>}

\* band.point(lambda i: i * m): the table entry for band value i with
\* m = num / 100, rounded by round() and clipped to a byte
Point(i, num) ==
    IF i * num <= 0 THEN 0
    ELSE IF <<i, num>> \in PointBelow THEN Clip8((i * num) \div 100)
    ELSE Clip8(RoundHalfEven(i * num, 100))

\* a warmth that shifts by up to 50% instead of 30%
AdjustPixelsHalf(img, op) ==
    [row \in 1..img.height |-> [col \in 1..img.width |->
         LET x == col - 1
             y == row - 1
         IN LET p == GetPixel(img, x, y) IN
            IF op.type = "temperature"
            THEN <<Point(p[1], 100 + 5 * op.amount), p[2],
                   Point(p[3], 100 - 5 * op.amount)>>
            ELSE <<p[1], Point(p[2], 100 - 5 * op.amount), p[3]>>]]

\* a tint that scales red along with green
AdjustPixelsTintRed(img, op) ==
    [row \in 1..img.height |-> [col \in 1..img.width |->
         LET x == col - 1
             y == row - 1
         IN LET p == GetPixel(img, x, y) IN
            IF op.type = "temperature"
            THEN <<Point(p[1], 100 + 3 * op.amount), p[2],
                   Point(p[3], 100 - 3 * op.amount)>>
            ELSE <<Point(p[1], 100 - 3 * op.amount),
                   Point(p[2], 100 - 3 * op.amount), p[3]>>]]

\* temperature and tint of _apply_adjust: factor = op.amount * 0.3, with
\* op.amount in tenths the multipliers are (100 +- 3 * amount) / 100
AdjustPixels(img, op) ==
    [row \in 1..img.height |-> [col \in 1..img.width |->
         LET x == col - 1
             y == row - 1
         IN LET p == GetPixel(img, x, y) IN
            IF op.type = "temperature"
            THEN <<Point(p[1], 100 + 3 * op.amount), p[2],
                   Point(p[3], 100 - 3 * op.amount)>>
            ELSE <<p[1], Point(p[2], 100 - 3 * op.amount), p[3]>>]]

\* the sepia tone of gray value g: int() truncates; 150 * 0.82 is
\* 122.99999999999999
SepiaTone(g) ==
    <<IF g < 255 THEN g ELSE 255,
      (g * 95) \div 100,
      IF g = 150 THEN 122 ELSE (g * 82) \div 100>>

\* a sepia that blends the tone with the grayscale intermediate
SepiaPixelsGrayBlend(img, op) ==
    [row \in 1..img.height |-> [col \in 1..img.width |->
         LET x == col - 1
             y == row - 1
         IN LET p == GetPixel(img, x, y)
                g == Luma(p, img.mode)
            IN IF op.intensity < 10
               THEN BlendPixel(<<g, g, g>>, SepiaTone(g), op.intensity)
               ELSE SepiaTone(g)]]

\* the sepia branch of _apply_filter
SepiaPixels(img, op) ==
    [row \in 1..img.height |-> [col \in 1..img.width |->
         LET x == col - 1
             y == row - 1
         IN LET p == GetPixel(img, x, y)
                g == Luma(p, img.mode)
            IN IF op.intensity < 10
               THEN BlendPixel(p, SepiaTone(g), op.intensity)
               ELSE SepiaTone(g)]]

\* convert('RGB') of an RGBA image drops the alpha band
ConvertPixels(img) ==
    [row \in 1..img.height |-> [col \in 1..img.width |->
         LET x == col - 1
             y == row - 1
         IN SubSeq(GetPixel(img, x, y), 1, 3)]]

\* the transformations whose pixel values are computed here; resampling,
\* blurring, sharpening, drawing text, lossy coding and palette lookup are
\* not
Computable(img, t) ==
    CASE t.op = "crop" -> TRUE
      [] t.op = "rotate" -> t.angle \in {0, 900, 1800, 2700}
      [] t.op = "enhance" ->
            /\ img.mode # "P"
            /\ t.amount = 10 \/ t.type # "sharpness"
      [] t.op = "adjust" -> img.mode = "RGB"
      [] t.op = "filter" -> t.type = "sepia" /\ img.mode # "P"
      [] t.op = "convert" -> img.mode = "RGBA"
      [] OTHER -> FALSE

Render(img, t) ==
    CASE t.op = "crop" -> CropPixels(img, t)
      [] t.op = "rotate" -> RotatePixels(img, t.angle)
      [] t.op = "enhance" -> EnhancePixels(img, t.type, t.amount)
      [] t.op = "adjust" -> AdjustPixels(img, t)
      [] t.op = "filter" -> SepiaPixels(img, t)
      [] t.op = "convert" -> ConvertPixels(img)

\* the pixels of img after transformation t: their values where they are
\* known and computed, else the history of what was done
Px(img, t) ==
    IF Concrete(img)
    THEN IF Computable(img, t) THEN [grid |-> Render(img, t)]
         ELSE [src |-> img.px, hist |-> <<t>>]
    ELSE [img.px EXCEPT !.hist = Append(@, t)]

\* img.convert('RGB')
ConvertRGB(img) ==
    [img EXCEPT !.mode = "RGB",
                !.px = Px(img, [op |-> "convert", mode |-> "RGB"])]

\* the image a file holds after img.save(format=F): what a later
\* Image.open of the bytes decodes to
Stored(img, F, quality) ==
    CASE F = "PNG" -> img
      [] F = "JPEG" ->
            [img EXCEPT !.px = Px(img, [op |-> "codec", format |-> F, quality |-> quality])]
      [] F = "WEBP" ->
            [img EXCEPT
               !.mode = IF img.mode \in {"RGB", "RGBA"} THEN img.mode
                        ELSE IF img.mode = "LA" THEN "RGBA" ELSE "RGB",
               !.px = Px(img, [op |-> "codec", format |-> F, quality |-> quality])]

\* a save that stamps the file with the time of writing
ImageSaveStamped(img, format, quality) ==
    IF Upper(format) \notin {"JPEG", "PNG", "WEBP"} THEN Raise("KeyError")
    ELSE IF Upper(format) = "JPEG" /\ img.mode \in {"RGBA", "P", "LA"}
    THEN Raise("OSError")
    ELSE [ok |-> TRUE,
          bytes |-> [valid |-> TRUE, format |-> Upper(format),
                     img |-> Stored(img, Upper(format), quality),
                     meta |-> <<now>>]]

\* img.save(output, format=format, quality=quality); output.getvalue()
\* The JPEG writer refuses modes with alpha or palette; PNG ignores quality;
\* no metadata is written.
ImageSave(img, format, quality) ==
    IF Upper(format) \notin {"JPEG", "PNG", "WEBP"} THEN Raise("KeyError")
    ELSE IF Upper(format) = "JPEG" /\ img.mode \in {"RGBA", "P", "LA"}
    THEN Raise("OSError")
    ELSE [ok |-> TRUE,
          bytes |-> [valid |-> TRUE, format |-> Upper(format),
                     img |-> Stored(img, Upper(format), quality),
                     meta |-> <<>>]]

----------------------------------------------------------------------------
(* app/services/image_service.py: the executors                            *)

\* _apply_crop: the crop primitive returns the requested rectangle whatever
\* the image bounds
ApplyCrop(img, op) ==
    Ok([img EXCEPT !.width = op.width, !.height = op.height,
                   !.px = Px(img, op)])

\* a rotate that returns its input
ApplyRotateNothing(img, op) == Ok(img)

\* _apply_rotate: img.rotate(-op.degrees, expand=True, resample=BICUBIC).
\* Angles are multiples of 90 degrees here: 0 copies, 180 keeps the size,
\* 90 and 270 transpose and swap width and height.
ApplyRotate(img, op) ==
    LET angle == (0 - op.degrees) % 3600 IN
    Ok([img EXCEPT
          !.width = IF angle \in {900, 2700} THEN img.height ELSE img.width,
          !.height = IF angle \in {900, 2700} THEN img.width ELSE img.height,
          !.px = Px(img, [op |-> "rotate", angle |-> angle])])

\* truth value of an Optional[int]
Truthy(v) == v.k = "int" /\ v.v # 0

\* (current dimension, other dimension, given dimension) for which the double
\* product other * (given / current) lands just below the exact integer
\* quotient, among the sizes met here: 145 * (100 / 29) is 499.99999999999994
FloatShort == {<<29, 145, 50>>, <<29, 145, 100>>, <<29, 145, 200>>}

\* a derivation that rounds to the nearest integer
DerivedRounded(other, given, cur) == (2 * other * given + cur) \div (2 * cur)

\* ratio = given / cur; int(other * ratio): int() truncates the double
Derived(other, given, cur) ==
    LET q == (other * given) \div cur IN
    IF <<cur, other, given>> \in FloatShort THEN q - 1 ELSE q

\* a resize that copies the given dimension instead of scaling the other
ResizeSizeNoRatio(img, op) ==
    IF Truthy(op.width) /\ ~Truthy(op.height)
    THEN <<op.width, op.width>>
    ELSE IF Truthy(op.height) /\ ~Truthy(op.width)
    THEN <<op.height, op.height>>
    ELSE <<op.width, op.height>>

\* _apply_resize: the new size, from the size of the image passed in
ResizeSize(img, op) ==
    IF Truthy(op.width) /\ ~Truthy(op.height)
    THEN <<op.width, JInt(Derived(img.height, op.width.v, img.width))>>
    ELSE IF Truthy(op.height) /\ ~Truthy(op.width)
    THEN <<JInt(Derived(img.width, op.height.v, img.height)), op.height>>
    ELSE <<op.width, op.height>>

\* img.resize(size): a size holding None is a TypeError, a dimension below
\* one a ValueError
ApplyResize(img, op) ==
    LET size == ResizeSize(img, op) IN
    IF size[1].k # "int" \/ size[2].k # "int" THEN Raise("TypeError")
    ELSE IF size[1].v <= 0 \/ size[2].v <= 0 THEN Raise("ValueError")
    ELSE Ok([img EXCEPT
               !.width = size[1].v, !.height = size[2].v,
               !.px = Px(img, [op |-> "resize", width |-> size[1].v,
                               height |-> size[2].v])])

\* _apply_adjust.  The ImageEnhance classes blend or filter, which palette
\* images refuse; temperature and tint unpack img.split() into exactly three
\* bands and merge them as RGB.
ApplyAdjust(img, op) ==
    IF op.type \in {"brightness", "contrast", "saturation", "sharpness",
                    "exposure"}
    THEN IF img.mode = "P" THEN Raise("ValueError")
         ELSE Ok([img EXCEPT
                    !.px = Px(img, [op |-> "enhance",
                                    type |-> IF op.type = "exposure"
                                             THEN "brightness" ELSE op.type,
                                    amount |-> op.amount])])
    ELSE IF op.type \in {"temperature", "tint"}
    THEN IF Bands(img.mode) # 3 THEN Raise("ValueError")
         ELSE Ok([img EXCEPT !.mode = "RGB", !.px = Px(img, op)])
    ELSE Ok(img)

\* _apply_filter: blur and sepia; the chain has no branch for grayscale and
\* vignette, which fall through to "return img"
ApplyFilter(img, op) ==
    IF op.type = "blur"
    THEN IF img.mode = "P" THEN Raise("ValueError")
         ELSE Ok([img EXCEPT
                    !.px = Px(img, [op |-> "blur",
                                    radius |-> op.intensity * 10])])
    ELSE IF op.type = "sepia"
    THEN IF op.intensity < 10
         THEN IF img.mode # "RGB" THEN Raise("ValueError")
              ELSE Ok([img EXCEPT !.px = Px(img, op)])
         ELSE Ok([img EXCEPT !.mode = "RGB", !.px = Px(img, op)])
    ELSE Ok(img)

\* color_hex = op.color.lstrip('#')
RECURSIVE LStripHash(_)
LStripHash(cs) ==
    IF cs # <<>> /\ Head(cs) = "#" THEN LStripHash(Tail(cs)) ELSE cs

\* int(color_hex[i:i+2], 16) for i in (0, 2, 4): FALSE when one of them
\* raises ValueError
ColorParses(color) ==
    LET hex == LStripHash(color) IN
    \A i \in {0, 2, 4} :
        /\ Len(hex) > i
        /\ \A j \in (i + 1)..(i + 2) : j <= Len(hex) => hex[j] \in HexDigits

\* a font_family that holds the character U+0000
HasNul(family) == family \in {"Arial<NUL>"}

\* "Arial" in op.font_family
ContainsArial(family) == family \in {"Arial", "Arial<NUL>"}

\* the file ImageFont.truetype is asked for: a bare name, which is looked up
\* among the installed fonts, or a path
FontName(family) == [dir |-> "", file |-> family]

\* font_path of the second attempt, from platform.system()
FontPath(system, family) ==
    IF system = "Darwin"
    THEN IF ContainsArial(family)
         THEN [dir |-> "/System/Library/Fonts/Supplemental", file |-> "Arial"]
         ELSE [dir |-> "/System/Library/Fonts", file |-> family]
    ELSE IF system = "Linux"
    THEN [dir |-> "/usr/share/fonts/truetype/dejavu", file |-> family]
    ELSE [dir |-> "C:\\Windows\\Fonts", file |-> family]

\* ImageFont.truetype(font, size): ImportError where Pillow was built
\* without FreeType, ValueError for a file name with an embedded null,
\* OSError for a file that cannot be opened as a font
TrueType(font, size) ==
    IF ~host.freetype THEN Raise("ImportError")
    ELSE IF HasNul(font.file) THEN Raise("ValueError")
    ELSE IF font \notin host.fonts THEN Raise("OSError")
    ELSE [ok |-> TRUE, font |-> [truetype |-> font, size |-> size]]

\* ImageFont.load_default()
LoadDefault == [ok |-> TRUE, font |-> [truetype |-> None, size |-> 0]]

\* the try/except of _apply_text: the first except clause names OSError, the
\* inner one is bare
ResolveFont(op) ==
    LET first == TrueType(FontName(op.font_family), op.font_size)
        second == TrueType(FontPath(host.system, op.font_family),
                           op.font_size)
    IN IF first.ok THEN first
       ELSE IF first.exc # "OSError" THEN first
       ELSE IF second.ok THEN second
       ELSE LoadDefault

\* a duplicate that is the very object that was passed in
ImageCopyAlias(img) ==
    [ref |-> [img |-> 1, img_copy |-> 1], obj |-> <<img>>]

\* img_copy = img.copy(): the image objects _apply_text holds, img_copy being
\* a second object with the size, mode and pixels of img
ImageCopy(img) ==
    [ref |-> [img |-> 1, img_copy |-> 2], obj |-> <<img, img>>]

\* draw = ImageDraw.Draw(img_copy); draw.text(...): the object img_copy names
\* is changed in place
DrawText(heap, op, font) ==
    LET target == heap.obj[heap.ref.img_copy] IN
    [heap EXCEPT !.obj[heap.ref.img_copy] =
        [target EXCEPT
            !.px = Px(target, [op |-> "text", text |-> op.text,
                               color |-> op.color, x |-> op.x, y |-> op.y,
                               font |-> font])]]

\* the outcome of _apply_text short of the objects: the fill is a
\* three-element tuple, which the drawing primitive accepts on RGB, RGBA and
\* palette images only
TextRaises(img, op) ==
    LET font == ResolveFont(op) IN
    IF ~ColorParses(op.color) THEN Raise("ValueError")
    ELSE IF ~font.ok THEN font
    ELSE IF img.mode \in {"L", "LA"} THEN Raise("TypeError")
    ELSE Ok(None)

\* the image objects when _apply_text ends
TextHeap(img, op) ==
    IF TextRaises(img, op).ok
    THEN DrawText(ImageCopy(img), op, ResolveFont(op).font)
    ELSE ImageCopy(img)

\* _apply_text: returns the object it drew on
ApplyText(img, op) ==
    IF TextRaises(img, op).ok
    THEN Ok(TextHeap(img, op).obj[TextHeap(img, op).ref.img_copy])
    ELSE TextRaises(img, op)

\* the image object an executor was given, after the call: _apply_text is
\* the one executor that writes into an image; the others call methods of
\* Pillow that build the image they return (crop, rotate, resize, enhance,
\* split, point, merge, filter, convert, new, blend)
Argument(img, op) ==
    IF op.op = "text" THEN TextHeap(img, op).obj[TextHeap(img, op).ref.img]
    ELSE img

\* the if/elif chain of process_image: an op matching no branch leaves img
Executor(img, op) ==
    CASE op.op = "crop" -> ApplyCrop(img, op)
      [] op.op = "rotate" -> ApplyRotate(img, op)
      [] op.op = "resize" -> ApplyResize(img, op)
      [] op.op = "adjust" -> ApplyAdjust(img, op)
      [] op.op = "filter" -> ApplyFilter(img, op)
      [] op.op = "text" -> ApplyText(img, op)
      [] OTHER -> Ok(img)

----------------------------------------------------------------------------
(* app/services/image_service.py: process_image, one action per step       *)

\* a worker that serves no request
Idle ==
    [pc |-> "idle", endpoint |-> "", body |-> None, graph |-> None,
     pre |-> None, photo |-> None, image_bytes |-> None, operations |-> <<>>,
     format |-> "", quality |-> 0, img |-> None, i |-> 0, calls |-> <<>>,
     ret |-> None, exc |-> "", processed_bytes |-> None,
     uploaded |-> {}, response |-> None]

\* process_image(image_bytes, operations, format, quality) is entered
Entered(r, bytes, operations, format, quality) ==
    [r EXCEPT !.pc = "pi_open", !.image_bytes = bytes,
              !.operations = operations, !.format = format,
              !.quality = quality, !.img = None, !.i = 0, !.calls = <<>>,
              !.ret = None, !.exc = ""]

\* an exception leaves process_image: its locals are gone, nothing returned
Raised(r, e) == [r EXCEPT !.pc = "pi_raised", !.exc = e, !.img = None]

\* img = Image.open(io.BytesIO(image_bytes))
PIOpen(w) ==
    /\ rq[w].pc = "pi_open"
    /\ LET res == ImageOpen(rq[w].image_bytes) IN
       rq' = [rq EXCEPT ![w] =
                IF res.ok THEN [@ EXCEPT !.pc = "pi_convert", !.img = res.img]
                ELSE Raised(@, res.exc)]
    /\ UNCHANGED <<host, blobs, photo, now, runs, served>>

\* a comparison that forgets upper()
IsJpegExact(format) == format = "JPEG"

\* format.upper() == 'JPEG'
IsJpeg(format) == Upper(format) = "JPEG"

\* if img.mode in ('RGBA', 'P') and format.upper() == 'JPEG': convert
PIConvert(w) ==
    /\ rq[w].pc = "pi_convert"
    /\ rq' = [rq EXCEPT ![w] =
                [@ EXCEPT !.pc = "pi_loop",
                          !.img = IF @.mode \in {"RGBA", "P"}
                                     /\ IsJpeg(rq[w].format)
                                  THEN ConvertRGB(@) ELSE @]]
    /\ UNCHANGED <<host, blobs, photo, now, runs, served>>

\* an iteration that walks the list from its end
CurrentOpReversed(operations, i) == operations[Len(operations) - i]

\* for op in operations: the op of the iteration after i completed ones
CurrentOp(operations, i) == operations[i + 1]

\* a loop body that catches the executor's exception and goes on
AppliedSwallow(r, op, res) ==
    [r EXCEPT !.i = @ + 1,
              !.img = IF res.ok THEN res.img ELSE @,
              !.calls = Append(@, [index |-> r.i, op |-> op,
                                   input |-> r.img, result |-> res,
                                   argument |-> Argument(r.img, op)])]

\* img = self._apply_x(img, op): the locals after the call returned res
Applied(r, op, res) ==
    LET logged == [r EXCEPT !.calls =
                      Append(@, [index |-> r.i, op |-> op,
                                 input |-> r.img, result |-> res,
                                 argument |-> Argument(r.img, op)])]
    IN IF res.ok THEN [logged EXCEPT !.i = @ + 1, !.img = res.img]
       ELSE Raised(logged, res.exc)

\* one iteration of the loop over operations
PIApply(w) ==
    /\ rq[w].pc = "pi_loop"
    /\ rq[w].i < Len(rq[w].operations)
    /\ LET op == CurrentOp(rq[w].operations, rq[w].i) IN
       rq' = [rq EXCEPT ![w] = Applied(@, op, Executor(rq[w].img, op))]
    /\ UNCHANGED <<host, blobs, photo, now, runs, served>>

\* img.save(output, format=format, quality=quality); return output.getvalue()
PISave(w) ==
    /\ rq[w].pc = "pi_loop"
    /\ rq[w].i >= Len(rq[w].operations)
    /\ LET res == ImageSave(rq[w].img, rq[w].format, rq[w].quality) IN
       rq' = [rq EXCEPT ![w] =
                IF res.ok
                THEN [@ EXCEPT !.pc = "pi_returned", !.ret = res.bytes,
                               !.img = None]
                ELSE Raised(@, res.exc)]
    /\ UNCHANGED <<host, blobs, photo, now, runs, served>>

ProcessImage(w) == PIOpen(w) \/ PIConvert(w) \/ PIApply(w) \/ PISave(w)

----------------------------------------------------------------------------
(* app/routers/edits.py and its collaborators                              *)

Endpoints == {"preview", "commit", "download"}

\* the photo of the current user and its blob name
PhotoId == "p1"
BlobName == "u1/p1"

\* uuid.uuid4() draws a name no blob has yet
PreviewNames == {"previews/u1/a"}

\* BlobService.get_blob_url
GetBlobUrl(name) == [container |-> "originals", blob |-> name]

\* len(bytes), up to what the model keeps of the bytes
ByteLength(bytes) ==
    IF bytes.valid
    THEN bytes.img.width * bytes.img.height * Bands(bytes.img.mode)
         + Len(bytes.img.px.hist) + Len(bytes.meta)
    ELSE 0

\* extract_exif_data(blob_bytes): never raises
ExtractExifData(bytes) ==
    IF bytes.valid
    THEN [width |-> JInt(bytes.img.width), height |-> JInt(bytes.img.height),
          format |-> JStr(bytes.format), mode |-> JStr(bytes.img.mode),
          exif |-> bytes.meta]
    ELSE [width |-> JNull, height |-> JNull, format |-> JNull,
          mode |-> JNull, exif |-> <<>>]

\* the Photo row that describes the stored bytes
PhotoRow(bytes, content_type, t) ==
    [id |-> PhotoId, blob_name |-> BlobName, blob_url |-> GetBlobUrl(BlobName),
     file_size |-> ByteLength(bytes), content_type |-> content_type,
     width |-> ExtractExifData(bytes).width,
     height |-> ExtractExifData(bytes).height,
     exif_data |-> ExtractExifData(bytes), updated_at |-> t]

\* the handler ends with this response; raising HTTPException is a response
Respond(r, status, content) ==
    [r EXCEPT !.pc = "done", !.response = [status |-> status, content |-> content]]

\* a request arrives; FastAPI has the body validated before the endpoint runs
Receive(w, e, body) ==
    /\ rq[w].pc = "idle"
    /\ e = "preview" => PreviewNames \ DOMAIN blobs # {}
    /\ rq' = [rq EXCEPT ![w] =
                [Idle EXCEPT !.pc = "validate", !.endpoint = e, !.body = body,
                             !.pre = [blobs |-> blobs, photo |-> photo]]]
    /\ served' = served + 1
    /\ UNCHANGED <<host, blobs, photo, now, runs>>

\* graph: OperationGraph is built from the body, or the request ends in 422
Validate(w) ==
    /\ rq[w].pc = "validate"
    /\ \/ /\ OperationGraph(rq[w].body) = {}
          /\ rq' = [rq EXCEPT ![w] = Respond(@, 422, None)]
       \/ \E graph \in OperationGraph(rq[w].body) :
             rq' = [rq EXCEPT ![w] = [@ EXCEPT !.pc = "query", !.graph = graph]]
    /\ UNCHANGED <<host, blobs, photo, now, runs, served>>

\* photo = db.query(Photo).filter(id, owner).first(); 404 without it
QueryPhoto(w) ==
    /\ rq[w].pc = "query"
    /\ rq' = [rq EXCEPT ![w] =
                IF rq[w].graph.photo_id = photo.id
                THEN [@ EXCEPT !.pc = "get_blob", !.photo = photo]
                ELSE Respond(@, 404, None)]
    /\ UNCHANGED <<host, blobs, photo, now, runs, served>>

\* image_bytes = blob_service.get_blob_bytes(...); 500 when storage fails
GetBlob(w) ==
    /\ rq[w].pc = "get_blob"
    /\ \/ rq' = [rq EXCEPT ![w] =
                   [@ EXCEPT !.pc = "process",
                             !.image_bytes = blobs[rq[w].photo.blob_name]]]
       \/ rq' = [rq EXCEPT ![w] = Respond(@, 500, None)]
    /\ UNCHANGED <<host, blobs, photo, now, runs, served>>

\* image_service.process_image(image_bytes, graph.operations,
\*     format=graph.output_format, quality=graph.quality)
CallProcessImage(w) ==
    /\ rq[w].pc = "process"
    /\ rq' = [rq EXCEPT ![w] =
                Entered(@, rq[w].image_bytes, rq[w].graph.operations,
                        rq[w].graph.output_format, rq[w].graph.quality)]
    /\ UNCHANGED <<host, blobs, photo, now, runs, served>>

\* the step of each endpoint that follows a successful process_image
AfterProcess(e) ==
    CASE e = "preview" -> "preview_upload"
      [] e = "commit" -> "commit_upload"
      [] e = "download" -> "download_respond"

\* an except clause that falls back to the unedited bytes and goes on
HandledFallback(r) ==
    IF r.pc = "pi_raised"
    THEN [r EXCEPT !.pc = AfterProcess(r.endpoint),
                   !.processed_bytes = r.image_bytes]
    ELSE [r EXCEPT !.pc = AfterProcess(r.endpoint), !.processed_bytes = r.ret]

\* try: processed_bytes = image_service.process_image(...)
\* except Exception: raise HTTPException(400)
Handled(r) ==
    IF r.pc = "pi_raised" THEN Respond(r, 400, None)
    ELSE [r EXCEPT !.pc = AfterProcess(r.endpoint), !.processed_bytes = r.ret]

ProcessDone(w) ==
    /\ rq[w].pc \in {"pi_returned", "pi_raised"}
    /\ rq[w].endpoint \in Endpoints
    /\ rq' = [rq EXCEPT ![w] = Handled(@)]
    /\ UNCHANGED <<host, blobs, photo, now, runs, served>>

\* BlobService.upload_bytes(container, blob_name, data, content_type):
\* upload_blob(data, overwrite=True)
UploadBytes(store, name, data) ==
    [n \in DOMAIN store \cup {name} |-> IF n = name THEN data ELSE store[n]]

\* a preview written over the blob of the photo
PreviewFilenameOfPhoto(store) == {BlobName}

\* preview_filename = f"previews/{current_user.id}/{uuid.uuid4()}.{fmt}"
PreviewFilename(store) == PreviewNames \ DOMAIN store

\* preview_edit: upload under previews/<user>/<uuid4>; 500 when it fails
PreviewUpload(w) ==
    /\ rq[w].pc = "preview_upload"
    /\ \/ \E name \in PreviewFilename(blobs) :
             /\ blobs' = UploadBytes(blobs, name, rq[w].processed_bytes)
             /\ rq' = [rq EXCEPT ![w] =
                         [@ EXCEPT !.pc = "preview_respond",
                                   !.uploaded = @ \cup {name}]]
       \/ /\ rq' = [rq EXCEPT ![w] = Respond(@, 500, None)]
          /\ UNCHANGED blobs
    /\ UNCHANGED <<host, photo, now, runs, served>>

\* preview_edit: the SAS URL of the preview; an exception of the SAS
\* generation is not caught (500)
PreviewRespond(w) ==
    /\ rq[w].pc = "preview_respond"
    /\ \/ \E name \in rq[w].uploaded :
             rq' = [rq EXCEPT ![w] = Respond(@, 200, GetBlobUrl(name))]
       \/ rq' = [rq EXCEPT ![w] = Respond(@, 500, None)]
    /\ UNCHANGED <<host, blobs, photo, now, runs, served>>

\* commit_edit: overwrite the existing blob of the photo; 500 when it fails
CommitUpload(w) ==
    /\ rq[w].pc = "commit_upload"
    /\ \/ /\ blobs' = UploadBytes(blobs, rq[w].photo.blob_name,
                                  rq[w].processed_bytes)
          /\ rq' = [rq EXCEPT ![w] =
                      [@ EXCEPT !.pc = "commit_sas",
                                !.uploaded = @ \cup {rq[w].photo.blob_name}]]
       \/ /\ rq' = [rq EXCEPT ![w] = Respond(@, 500, None)]
          /\ UNCHANGED blobs
    /\ UNCHANGED <<host, photo, now, runs, served>>

\* commit_edit: exif of the edited bytes, blob URL, a fresh SAS; an
\* exception of the SAS generation is not caught (500)
CommitSas(w) ==
    /\ rq[w].pc = "commit_sas"
    /\ \/ rq' = [rq EXCEPT ![w] = [@ EXCEPT !.pc = "commit_db"]]
       \/ rq' = [rq EXCEPT ![w] = Respond(@, 500, None)]
    /\ UNCHANGED <<host, blobs, photo, now, runs, served>>

\* the row after the assignments of commit_edit and db.commit() at time t
CommittedRow(row, bytes, output_format, t) ==
    [row EXCEPT !.blob_url = GetBlobUrl(row.blob_name),
                !.file_size = ByteLength(bytes),
                !.content_type = "image/" \o output_format,
                !.width = ExtractExifData(bytes).width,
                !.height = ExtractExifData(bytes).height,
                !.exif_data = ExtractExifData(bytes),
                !.updated_at = t]

\* commit_edit: update the photo record, db.commit(), db.refresh(photo);
\* a failing db.commit() leaves the row as it was (500)
CommitDb(w) ==
    /\ rq[w].pc = "commit_db"
    /\ now' = now + 1
    /\ \/ /\ photo' = CommittedRow(photo, rq[w].processed_bytes,
                                   rq[w].graph.output_format, now')
          /\ rq' = [rq EXCEPT ![w] = Respond(@, 200, photo'.blob_url)]
       \/ /\ rq' = [rq EXCEPT ![w] = Respond(@, 500, None)]
          /\ UNCHANGED photo
    /\ UNCHANGED <<host, blobs, runs, served>>

\* download_edit: StreamingResponse(io.BytesIO(processed_bytes))
DownloadRespond(w) ==
    /\ rq[w].pc = "download_respond"
    /\ rq' = [rq EXCEPT ![w] = Respond(@, 200, rq[w].processed_bytes)]
    /\ UNCHANGED <<host, blobs, photo, now, runs, served>>

\* the response is sent and the handler's locals are dropped
Finish(w) ==
    /\ rq[w].pc = "done"
    /\ rq' = [rq EXCEPT ![w] = Idle]
    /\ UNCHANGED <<host, blobs, photo, now, runs, served>>

----------------------------------------------------------------------------
(* Inputs                                                                  *)

Workers == {"w1"}

MaxOps == 3
MaxRuns == 3
MaxRequests == 2
MaxPixelOps == 2

NoFields ==
    [op |-> Absent, x |-> Absent, y |-> Absent, width |-> Absent,
     height |-> Absent, degrees |-> Absent, type |-> Absent,
     amount |-> Absent, intensity |-> Absent, text |-> Absent,
     font_size |-> Absent, color |-> Absent, font_family |-> Absent]

WCrop(x, y, w, h) ==
    [NoFields EXCEPT !.op = JStr("crop"), !.x = JInt(x), !.y = JInt(y),
                     !.width = JInt(w), !.height = JInt(h)]
WRotate(d) == [NoFields EXCEPT !.op = JStr("rotate"), !.degrees = JInt(d)]
WResize(w, h) == [NoFields EXCEPT !.op = JStr("resize"), !.width = w, !.height = h]
WAdjust(t, a) ==
    [NoFields EXCEPT !.op = JStr("adjust"), !.type = JStr(t), !.amount = JFloat(a)]
WFilter(t, i) ==
    [NoFields EXCEPT !.op = JStr("filter"), !.type = JStr(t), !.intensity = i]
WText(len, size, color) ==
    [NoFields EXCEPT !.op = JStr("text"), !.text = JText(len), !.font_size = size,
                     !.color = color, !.x = JInt(10), !.y = JInt(10)]

WGraph(id, ops, fmt, q) ==
    [photo_id |-> id, operations |-> ops, output_format |-> fmt, quality |-> q]

\* stored originals: what a camera or an export wrote
SourceBytes(src, fmt, w, h, mode) ==
    [valid |-> TRUE, format |-> fmt, img |-> SourceImage(src, w, h, mode),
     meta |-> <<>>]

Sources ==
    {SourceBytes("a", "JPEG", 400, 300, "RGB"),
     SourceBytes("b", "PNG", 200, 100, "RGBA"),
     SourceBytes("c", "PNG", 200, 100, "P"),
     SourceBytes("d", "PNG", 200, 100, "LA"),
     Corrupt}

ContentTypeOf(bytes) ==
    IF bytes.valid /\ bytes.format = "PNG" THEN "image/png" ELSE "image/jpeg"

RECURSIVE SeqsUpTo(_, _)
SeqsUpTo(S, n) ==
    IF n = 0 THEN {<<>>}
    ELSE SeqsUpTo(S, n - 1)
         \cup {Append(q, x) : q \in {t \in SeqsUpTo(S, n - 1) : Len(t) = n - 1},
                              x \in S}

\* process_image called on its own
PipeWireOps ==
    {WCrop(0, 0, 200, 150), WRotate(90), WResize(JInt(100), Absent),
     WAdjust("temperature", 10), WFilter("sepia", JFloat(5)),
     WFilter("grayscale", Absent), WText(5, Absent, Absent)}
PipeOps == UNION {Operation(o) : o \in PipeWireOps}
PipeFormats == {"JPEG", "jpeg", "Jpeg", "png", "webp"}

\* a Linux container with Pillow's wheel and no font packages
DefaultHost == [system |-> "Linux", fonts |-> {}, freetype |-> TRUE]

InitStoreOn(bytes, h) ==
    /\ blobs = [n \in {BlobName} |-> bytes]
    /\ photo = PhotoRow(bytes, ContentTypeOf(bytes), 0)
    /\ now = 0
    /\ runs = <<>>
    /\ served = 0
    /\ host = h

InitStore(bytes) == InitStoreOn(bytes, DefaultHost)

InitPipe ==
    /\ \E bytes \in Sources, ops \in SeqsUpTo(PipeOps, MaxOps),
          format \in PipeFormats :
          rq = [w \in Workers |->
                  Entered([Idle EXCEPT !.endpoint = "direct"], bytes, ops,
                          format, QualityDefault)]
    /\ InitStore(Corrupt)

NextPipe == \E w \in DOMAIN rq : ProcessImage(w)

SpecPipe == InitPipe /\ [][NextPipe]_vars

----------------------------------------------------------------------------
(* process_image called several times in one process                       *)

TwiceOps ==
    {<<>>} \cup {<<op>> : op \in Operation(WCrop(0, 0, 200, 150))}
TwiceSources ==
    {SourceBytes("a", "JPEG", 400, 300, "RGB"),
     SourceBytes("b", "PNG", 200, 100, "RGBA")}
TwiceFormats == {"jpeg", "png"}
TwiceQualities == {50, QualityDefault}

Invoke(w, bytes, ops, format, quality) ==
    /\ rq[w].pc = "idle"
    /\ Len(runs) < MaxRuns
    /\ rq' = [rq EXCEPT ![w] =
                Entered([Idle EXCEPT !.endpoint = "direct"], bytes, ops,
                        format, quality)]
    /\ UNCHANGED <<host, blobs, photo, now, runs, served>>

\* the call ends: what it was given and what came back
DirectReturn(w) ==
    /\ rq[w].pc \in {"pi_returned", "pi_raised"}
    /\ rq[w].endpoint = "direct"
    /\ runs' = Append(runs,
                      [image_bytes |-> rq[w].image_bytes,
                       operations |-> rq[w].operations,
                       format |-> rq[w].format, quality |-> rq[w].quality,
                       ret |-> rq[w].ret, exc |-> rq[w].exc])
    /\ rq' = [rq EXCEPT ![w] = Idle]
    /\ now' = now + 1
    /\ UNCHANGED <<host, blobs, photo, served>>

InitTwice ==
    /\ rq = [w \in Workers |-> Idle]
    /\ InitStore(Corrupt)

NextTwice ==
    \E w \in DOMAIN rq :
        \/ \E bytes \in TwiceSources, ops \in TwiceOps,
              format \in TwiceFormats, quality \in TwiceQualities :
              Invoke(w, bytes, ops, format, quality)
        \/ ProcessImage(w)
        \/ DirectReturn(w)

SpecTwice == InitTwice /\ [][NextTwice]_vars

----------------------------------------------------------------------------
(* process_image called with a rotation and a crop in either order         *)

OrderOps ==
    {<<RotateOp(WRotate(90)), CropOp(WCrop(0, 0, 200, 150))>>,
     <<CropOp(WCrop(0, 0, 200, 150)), RotateOp(WRotate(90))>>}
OrderSources ==
    TwiceSources \cup {SourceBytes("f", "PNG", 300, 200, "RGB")}

NextOrder ==
    \E w \in DOMAIN rq :
        \/ \E bytes \in OrderSources, ops \in OrderOps,
              format \in TwiceFormats :
              Invoke(w, bytes, ops, format, QualityDefault)
        \/ ProcessImage(w)
        \/ DirectReturn(w)

SpecOrder == InitTwice /\ [][NextOrder]_vars

----------------------------------------------------------------------------
(* process_image on graphs of crops and resizes                            *)

ResizeSources ==
    {SourceBytes("a", "JPEG", 400, 300, "RGB"),
     SourceBytes("e", "PNG", 200, 100, "RGB"),
     SourceBytes("f", "PNG", 300, 200, "RGB"),
     SourceBytes("g", "PNG", 29, 145, "RGB"),
     SourceBytes("h", "PNG", 1000, 10, "RGB")}
ResizeWireOps ==
    {WCrop(0, 0, 200, 100), WResize(JInt(100), Absent),
     WResize(JInt(50), Absent),
     WResize(Absent, JInt(50)), WResize(JInt(200), JInt(100))}
ResizeOps == UNION {Operation(o) : o \in ResizeWireOps}

InitResize ==
    /\ \E bytes \in ResizeSources, ops \in SeqsUpTo(ResizeOps, MaxOps) :
          rq = [w \in Workers |->
                  Entered([Idle EXCEPT !.endpoint = "direct"], bytes, ops,
                          "png", QualityDefault)]
    /\ InitStore(Corrupt)

SpecResize == InitResize /\ [][NextPipe]_vars

----------------------------------------------------------------------------
(* process_image on small images whose pixel values are known              *)

PixelBytes(fmt, mode, rows) ==
    [valid |-> TRUE, format |-> fmt, img |-> PixelImage(mode, rows),
     meta |-> <<>>]

PixelSources ==
    {PixelBytes("PNG", "RGB",
                <<<< <<200, 100, 50>>, <<10, 20, 30>>, <<255, 0, 128>> >>,
                  << <<0, 0, 0>>, <<45, 85, 165>>, <<150, 150, 150>> >> >>),
     PixelBytes("PNG", "RGBA",
                <<<< <<200, 100, 50, 255>>, <<10, 20, 30, 128>> >>,
                  << <<90, 90, 90, 0>>, <<255, 255, 255, 255>> >> >>),
     PixelBytes("PNG", "L",
                << << <<0>>, <<100>> >>, << <<150>>, <<255>> >>,
                   << <<45>>, <<7>> >> >>),
     PixelBytes("PNG", "P",
                << << <<0>>, <<1>>, <<2>> >>, << <<2>>, <<1>>, <<0>> >> >>)}

PixelWireOps ==
    {WCrop(1, 0, 2, 2), WCrop(1, 1, 3, 2), WRotate(90), WRotate(-90),
     WRotate(180),
     WFilter("sepia", Absent), WFilter("sepia", JInt(0)),
     WFilter("sepia", JFloat(5)), WFilter("grayscale", Absent)}
    \cup {WAdjust(t, 10) :
            t \in {"brightness", "contrast", "saturation", "sharpness",
                   "exposure"}}
    \cup {WAdjust(t, a) : t \in {"brightness", "exposure"}, a \in {5, 20}}
    \cup {WAdjust("contrast", 5), WAdjust("saturation", 0),
          WAdjust("tint", 10), WAdjust("tint", 0), WAdjust("tint", -5)}
    \cup {WAdjust("temperature", a) : a \in {-5, 0, 10, 40}}
PixelOps == UNION {Operation(o) : o \in PixelWireOps}

\* the graph [Crop{0,0,200,150}, Rotate{90}, Adjust{brightness,1.2}]
ExampleGraph ==
    <<CropOp(WCrop(0, 0, 200, 150)), RotateOp(WRotate(90)),
      AdjustOp(WAdjust("brightness", 12))>>

InitPixels ==
    /\ \E in \in (PixelSources \X SeqsUpTo(PixelOps, MaxPixelOps))
                 \cup ({SourceBytes("a", "JPEG", 400, 300, "RGB")}
                       \X {ExampleGraph}),
          format \in {"png", "JPEG"} :
          rq = [w \in Workers |->
                  Entered([Idle EXCEPT !.endpoint = "direct"], in[1], in[2],
                          format, QualityDefault)]
    /\ InitStore(Corrupt)

SpecPixels == InitPixels /\ [][NextPipe]_vars

----------------------------------------------------------------------------
(* process_image on graphs with text overlays, on several machines         *)

Hosts ==
    {DefaultHost,
     [system |-> "Linux",
      fonts |-> {FontName("DejaVuSans"),
                 FontPath("Linux", "DejaVuSans")},
      freetype |-> TRUE],
     [system |-> "Darwin", fonts |-> {FontPath("Darwin", "Arial")},
      freetype |-> TRUE],
     [system |-> "Windows", fonts |-> {FontName("Arial")},
      freetype |-> TRUE],
     [system |-> "Linux", fonts |-> {}, freetype |-> FALSE]}

FontFamilies == {Absent, JStr("DejaVuSans"), JStr("Missing"), JStr("Arial<NUL>")}

TextWireOps ==
    {[WText(5, Absent, Absent) EXCEPT !.font_family = f] : f \in FontFamilies}
    \cup {WCrop(0, 0, 200, 150)}
TextOps == UNION {Operation(o) : o \in TextWireOps}

TextSources ==
    {SourceBytes("a", "JPEG", 400, 300, "RGB"),
     SourceBytes("b", "PNG", 200, 100, "RGBA")}

InitText ==
    /\ \E bytes \in TextSources, ops \in SeqsUpTo(TextOps, MaxOps) :
          rq = [w \in Workers |->
                  Entered([Idle EXCEPT !.endpoint = "direct"], bytes, ops,
                          "png", QualityDefault)]
    /\ \E h \in Hosts : InitStoreOn(Corrupt, h)

SpecText == InitText /\ [][NextPipe]_vars

----------------------------------------------------------------------------
(* validation of request bodies on its own                                 *)

Dims == {Absent, JNull, JInt(0), JInt(50), JInt(100)}
Colors ==
    {<<"#", "F", "F", "F", "F", "F", "F">>,
     <<"#", "1", "a", "2", "B", "3", "c">>,
     <<"F", "F", "F", "F", "F", "F">>,
     <<"1", "a", "2", "B", "3", "c">>,
     <<"#", "F", "F", "F">>,
     <<"#", "G", "G", "G", "G", "G", "G">>,
     <<"#", "#", "F", "F", "F", "F", "F", "F">>,
     <<"#", "F", "F", "F", "F", "F", "F", "F">>,
     <<"r", "e", "d">>,
     <<>>}

VOps ==
    {WResize(w, h) : w \in Dims, h \in Dims}
    \cup {[NoFields EXCEPT !.op = t, !.x = JInt(x), !.y = JInt(y),
                           !.width = JInt(w), !.height = JInt(h)] :
            t \in {JStr("crop"), Absent}, x \in {-1, 0}, y \in {-1, 0},
            w \in {0, 10}, h \in {0, 10}}
    \cup {WFilter("blur", i) :
            i \in {Absent, JFloat(-1), JInt(0), JFloat(5), JInt(1),
                   JFloat(11), JFloat(15)}}
    \cup {WText(len, size, Absent) :
            len \in {0, 1, 500, 501},
            size \in {Absent, JInt(9), JInt(10), JInt(200), JInt(201)}}
    \cup {WText(5, Absent, JChars(c)) : c \in Colors}
    \cup {[WCrop(0, 0, 10, 10) EXCEPT !.op = t] :
            t \in {JStr("flip"), JStr("CROP"), JStr(""), JNull, JStr("rotate")}}
    \cup {[WRotate(90) EXCEPT !.op = t] : t \in {Absent, JStr("flip")}}
    \cup {[WAdjust("tint", 5) EXCEPT !.op = t] : t \in {Absent, JStr("filter")}}
    \cup {[WText(5, Absent, Absent) EXCEPT !.op = t, !.width = JInt(10)] :
            t \in {Absent, JStr("text")}}
    \cup {NoFields}

VBodies ==
    {WGraph(JStr(PhotoId), <<o>>, Absent, Absent) : o \in VOps}
    \cup {WGraph(JStr(PhotoId), <<>>, f, q) :
            f \in {Absent, JStr("jpeg"), JStr("png"), JStr("webp"),
                   JStr("gif"), JStr("JPEG")},
            q \in {Absent, JInt(0), JInt(1), JInt(100), JInt(101)}}

InitV ==
    /\ \E body \in VBodies :
          rq = [w \in Workers |->
                  [Idle EXCEPT !.pc = "validate", !.endpoint = "commit",
                               !.body = body]]
    /\ InitStore(Corrupt)

NextV == \E w \in DOMAIN rq : Validate(w)

SpecV == InitV /\ [][NextV]_vars

----------------------------------------------------------------------------
(* the service: one worker process serving one request after the other     *)

Bodies ==
    {WGraph(JStr(PhotoId), ops, JStr("png"), Absent) :
        ops \in {<<WCrop(0, 0, 200, 150)>>,
                 <<WCrop(0, 0, 200, 150), WRotate(90),
                   WAdjust("brightness", 12)>>,
                 <<WCrop(0, 0, 200, 150), WAdjust("temperature", 10),
                   WRotate(90)>>}}
    \cup
    {WGraph(JStr(PhotoId), ops, Absent, Absent) :
        ops \in {<<>>,
                 <<WCrop(0, 0, 200, 150), WAdjust("temperature", 10),
                   WRotate(90)>>,
                 <<WFilter("sepia", Absent)>>,
                 <<WResize(Absent, Absent)>>,
                 <<WResize(JNull, JInt(50))>>,
                 <<[WCrop(0, 0, 10, 10) EXCEPT !.op = Absent]>>,
                 <<[WCrop(0, 0, 10, 10) EXCEPT !.op = JStr("flip")]>>,
                 <<[WCrop(0, 0, 10, 10) EXCEPT !.op = JStr("rotate")]>>,
                 <<WCrop(0, 0, 10, 10), WFilter("blur", JFloat(15))>>}}
    \cup {WGraph(JStr(PhotoId), <<>>, Absent, JInt(0)),
          WGraph(JStr("p2"), <<>>, Absent, Absent)}

ServiceSources ==
    {SourceBytes("a", "JPEG", 400, 300, "RGB"),
     SourceBytes("b", "PNG", 200, 100, "RGBA"),
     SourceBytes("d", "PNG", 200, 100, "LA"),
     Corrupt}

Init ==
    /\ rq = [w \in Workers |-> Idle]
    /\ \E bytes \in ServiceSources : InitStore(bytes)

Next ==
    \E w \in DOMAIN rq :
        \/ /\ served < MaxRequests
           /\ \E e \in Endpoints, body \in Bodies : Receive(w, e, body)
        \/ Validate(w)
        \/ QueryPhoto(w)
        \/ GetBlob(w)
        \/ CallProcessImage(w)
        \/ ProcessImage(w)
        \/ ProcessDone(w)
        \/ PreviewUpload(w)
        \/ PreviewRespond(w)
        \/ CommitUpload(w)
        \/ CommitSas(w)
        \/ CommitDb(w)
        \/ DownloadRespond(w)
        \/ Finish(w)

Spec == Init /\ [][Next]_vars

----------------------------------------------------------------------------
(* commit_edit in two worker processes on one photo                        *)

CommitWorkers == {"w1", "w2"}

CommitSource == SourceBytes("a", "JPEG", 400, 300, "RGB")

CommitBodies ==
    {WGraph(JStr(PhotoId), ops, JStr("png"), Absent) :
        ops \in {<<WCrop(0, 0, 200, 150)>>, <<WRotate(90)>>,
                 <<WResize(JInt(100), Absent)>>}}

InitCommits ==
    /\ rq = [w \in CommitWorkers |-> Idle]
    /\ InitStore(CommitSource)

\* each worker serves one commit_edit request; the two graphs differ
NextCommits ==
    \E w \in DOMAIN rq :
        \/ /\ served < MaxRequests
           /\ \E body \in CommitBodies :
                 /\ \A v \in DOMAIN rq : rq[v].body # body
                 /\ Receive(w, "commit", body)
        \/ Validate(w)
        \/ QueryPhoto(w)
        \/ GetBlob(w)
        \/ CallProcessImage(w)
        \/ ProcessImage(w)
        \/ ProcessDone(w)
        \/ CommitUpload(w)
        \/ CommitSas(w)
        \/ CommitDb(w)

SpecCommits == InitCommits /\ [][NextCommits]_vars

----------------------------------------------------------------------------
(* Properties                                                              *)

InProcessImage(r) ==
    r.pc \in {"pi_open", "pi_convert", "pi_loop", "pi_returned", "pi_raised"}

\* the working image the first executor must be given: the decoded source,
\* converted to RGB for JPEG output of an RGBA or palette source
FirstInput(r) ==
    LET decoded == r.image_bytes.img IN
    IF decoded.mode \in {"RGBA", "P"} /\ r.format \in {"jpeg", "JPEG", "Jpeg"}
    THEN ConvertRGB(decoded) ELSE decoded

\* C1: process_image applies the operations strictly in list order: the
\* k-th executor call is for the k-th operation of the list, runs once, is
\* given the image the previous call returned (the decoded, possibly
\* normalized source for the first), and the returned bytes encode the
\* result of the last call; nothing is skipped, repeated or reordered.
C1_ListOrder ==
    \A w \in DOMAIN rq :
        LET r == rq[w]
            n == Len(r.calls)
        IN InProcessImage(r) =>
            /\ n <= Len(r.operations)
            /\ r.pc \in {"pi_loop", "pi_returned"} => n = r.i
            /\ \A k \in 1..n :
                  /\ r.calls[k].index = k - 1
                  /\ r.calls[k].op = r.operations[k]
                  /\ r.calls[k].input =
                        IF k = 1 THEN FirstInput(r)
                        ELSE r.calls[k - 1].result.img
                  /\ k < n => r.calls[k].result.ok
            /\ r.pc = "pi_returned" =>
                  /\ n = Len(r.operations)
                  /\ \A k \in 1..n : r.calls[k].result.ok
                  /\ r.ret.img =
                        Stored(IF n = 0 THEN FirstInput(r)
                               ELSE r.calls[n].result.img,
                               r.ret.format, r.quality)

C1_Witness ==
    \E w \in DOMAIN rq :
        /\ rq[w].pc = "pi_returned"
        /\ Len(rq[w].calls) = 3
        /\ rq[w].operations[1].op = "crop"
        /\ rq[w].operations[2].op = "rotate"
        /\ rq[w].operations[3].op = "text"

SameArguments(a, b) ==
    /\ a.image_bytes = b.image_bytes
    /\ a.operations = b.operations
    /\ a.format = b.format
    /\ a.quality = b.quality

C3_AllOrNothing ==
    \A w \in DOMAIN rq :
        LET r == rq[w] IN
        /\ \A k \in 1..Len(r.calls) :
              ~r.calls[k].result.ok => k = Len(r.calls) /\ r.exc # ""
        /\ r.pc = "pi_raised" => r.exc # ""
        /\ r.exc # "" =>
              /\ r.ret = None
              /\ r.processed_bytes = None
              /\ r.uploaded = {}
              /\ r.pc \in {"pi_raised", "done"}
              /\ r.endpoint \in Endpoints => blobs = r.pre.blobs
              /\ r.pc = "done" => r.response = [status |-> 400, content |-> None]

C3_Witness ==
    \E w \in DOMAIN rq :
        /\ rq[w].pc = "done"
        /\ rq[w].endpoint = "commit"
        /\ rq[w].exc # ""
        /\ Len(rq[w].calls) = 2
        /\ Len(rq[w].operations) = 3
        /\ ~rq[w].calls[2].result.ok

\* C4: in commit_edit, when the graph fails validation or process_image
\* raises, the stored blobs and the photo row are what they were when the
\* request arrived.
C4_BadGraphNoMutation ==
    \A w \in DOMAIN rq :
        LET r == rq[w] IN
        (/\ r.endpoint = "commit"
         /\ \/ r.exc # ""
            \/ r.pc = "done" /\ r.graph = None)
        => blobs = r.pre.blobs /\ photo = r.pre.photo

C4_Witness ==
    \E w \in DOMAIN rq :
        /\ rq[w].endpoint = "commit"
        /\ rq[w].pc = "done"
        /\ rq[w].exc # ""
        /\ rq[w].calls # <<>>
        /\ rq[w].response.status = 400

\* a resize object of a body that carries neither width nor height
ResizeWithoutDimensions(o) ==
    o.op = JStr("resize") /\ o.width = Absent /\ o.height = Absent

\* C5: a Resize with width and height both absent fails validation, so a
\* graph holding one never gets past validation, let alone to process_image.
C5_ResizeWithoutDimensionsRejected ==
    \A w \in DOMAIN rq :
        LET r == rq[w] IN
        (/\ r.body # None
         /\ \E k \in 1..Len(r.body.operations) :
               ResizeWithoutDimensions(r.body.operations[k]))
        => r.graph = None /\ ~InProcessImage(r)

PresentPositive(v) == v.k = "int" /\ v.v > 0
OmittedOrNull(v) == v.k \in {"absent", "null"}

\* a body whose only operation is a resize with at least one dimension
\* present and positive, the other one omitted, null or positive as well
ResizeWithADimension(body) ==
    /\ Len(body.operations) = 1
    /\ body.output_format = Absent /\ body.quality = Absent
    /\ LET o == body.operations[1] IN
       /\ o.op = JStr("resize")
       /\ \/ PresentPositive(o.width) /\ OmittedOrNull(o.height)
          \/ PresentPositive(o.height) /\ OmittedOrNull(o.width)
          \/ PresentPositive(o.width) /\ PresentPositive(o.height)

\* C6: a Resize with at least one of width and height present and positive
\* passes validation, whether the other is omitted or null.
C6_ResizeWithADimensionAccepted ==
    \A w \in DOMAIN rq :
        LET r == rq[w] IN
        (r.body # None /\ r.pc # "validate" /\ ResizeWithADimension(r.body))
        => r.graph # None

TagUnknown(o) == o.op.k # "absent" /\ ~(o.op.k = "str" /\ o.op.v \in OperationType)
TagMissing(o) == o.op.k = "absent"

\* C7 as stated: an operation object whose tag is missing or unknown fails
\* validation.
C7_MissingOrUnknownTagRejected ==
    \A w \in DOMAIN rq :
        LET r == rq[w] IN
        (/\ r.body # None
         /\ \E k \in 1..Len(r.body.operations) :
               TagMissing(r.body.operations[k]) \/ TagUnknown(r.body.operations[k]))
        => r.graph = None

\* C7, amended: an operation object whose tag is present and is not one of
\* the six kinds fails validation (an object without tag is validated
\* against every member with the member's own tag); every operation that
\* reaches the dispatch matches exactly one branch, and it is the branch of
\* the tag its object carried, if it carried one.
C7_UnknownTagRejected ==
    \A w \in DOMAIN rq :
        LET r == rq[w] IN
        r.body # None =>
            /\ (\E k \in 1..Len(r.body.operations) :
                   TagUnknown(r.body.operations[k])) => r.graph = None
            /\ (/\ r.pc # "validate"
                /\ r.body.operations = <<[WCrop(0, 0, 10, 10) EXCEPT !.op = Absent]>>)
               => r.graph # None
            /\ r.graph # None =>
                  /\ Len(r.graph.operations) = Len(r.body.operations)
                  /\ InProcessImage(r) => r.operations = r.graph.operations
                  /\ \A k \in 1..Len(r.graph.operations) :
                        /\ Cardinality({t \in OperationType :
                                          r.graph.operations[k].op = t}) = 1
                        /\ ~TagMissing(r.body.operations[k]) =>
                              r.body.operations[k].op = JStr(r.graph.operations[k].op)
                  /\ \A k \in 1..Len(r.calls) :
                        r.calls[k].op = r.graph.operations[k]

C7_Witness ==
    \E w \in DOMAIN rq :
        /\ rq[w].body # None
        /\ rq[w].calls # <<>>
        /\ TagMissing(rq[w].body.operations[1])
        /\ rq[w].calls[1].op.op = "crop"
        /\ rq[w].calls[1].result.ok

\* a body whose only operation is a text overlay, valid but for its color
TextWithColor(body) ==
    /\ Len(body.operations) = 1
    /\ body.output_format = Absent /\ body.quality = Absent
    /\ LET o == body.operations[1] IN
       /\ o.op = JStr("text") /\ o.text = JText(5) /\ o.font_size = Absent
       /\ o.color.k = "str"

\* ^#?[0-9A-Fa-f]{6}$
SixHexOptionalHash(cs) ==
    LET digits == IF cs # <<>> /\ Head(cs) = "#" THEN Tail(cs) ELSE cs IN
    Len(digits) = 6 /\ {digits[i] : i \in 1..Len(digits)} \subseteq HexDigits

\* ^#[0-9A-Fa-f]{6}$
HashSixHex(cs) ==
    /\ cs # <<>> /\ Head(cs) = "#"
    /\ Len(Tail(cs)) = 6
    /\ {Tail(cs)[i] : i \in 1..Len(Tail(cs))} \subseteq HexDigits

\* C8 as stated: a TextOverlay passes validation exactly when its color
\* matches ^#?[0-9A-Fa-f]{6}$, with or without the leading '#'.
C8_ColorOptionalHash ==
    \A w \in DOMAIN rq :
        LET r == rq[w] IN
        (r.body # None /\ r.pc # "validate" /\ TextWithColor(r.body))
        => (r.graph # None <=> SixHexOptionalHash(r.body.operations[1].color.chars))

\* C8, amended: a TextOverlay passes validation exactly when its color
\* matches ^#[0-9A-Fa-f]{6}$: six hex digits after a leading '#'; six hex
\* digits without the '#' are rejected like any other string.
C8_ColorHashRequired ==
    \A w \in DOMAIN rq :
        LET r == rq[w] IN
        (r.body # None /\ r.pc # "validate" /\ TextWithColor(r.body))
        => (r.graph # None <=> HashSixHex(r.body.operations[1].color.chars))

C8_Witness ==
    \E w \in DOMAIN rq :
        /\ rq[w].body # None /\ TextWithColor(rq[w].body)
        /\ rq[w].body.operations[1].color.chars = <<"#", "1", "a", "2", "B", "3", "c">>
        /\ rq[w].graph # None
        /\ rq[w].graph.operations[1].color = <<"#", "1", "a", "2", "B", "3", "c">>

IsInt(v) == v.k = "int"
IsNumber(v) == v.k \in {"int", "float"}

\* a field of the operation object o lies outside its declared range
OperationOutOfRange(o) ==
    \/ /\ o.op = JStr("crop")
       /\ \/ IsInt(o.x) /\ o.x.v < 0
          \/ IsInt(o.y) /\ o.y.v < 0
          \/ IsInt(o.width) /\ o.width.v <= 0
          \/ IsInt(o.height) /\ o.height.v <= 0
    \/ /\ o.op = JStr("filter")
       /\ IsNumber(o.intensity)
       /\ FloatVal(o.intensity) < 0 \/ FloatVal(o.intensity) > 10
    \/ /\ o.op = JStr("text")
       /\ \/ o.text.k = "str" /\ (o.text.len < 1 \/ o.text.len > 500)
          \/ IsInt(o.font_size) /\ (o.font_size.v < 10 \/ o.font_size.v > 200)

GraphOutOfRange(body) ==
    \/ IsInt(body.quality) /\ (body.quality.v < 1 \/ body.quality.v > 100)
    \/ body.output_format.k = "str"
       /\ body.output_format.v \notin {"jpeg", "png", "webp"}
    \/ \E k \in 1..Len(body.operations) : OperationOutOfRange(body.operations[k])

\* C9: a body with a numeric field outside its declared range (Crop x < 0,
\* y < 0, width <= 0, height <= 0; Filter intensity outside 0.0..1.0; text
\* length outside 1..500; font_size outside 10..200; quality outside 1..100;
\* output_format not jpeg, png or webp) is rejected by validation: the
\* endpoint does not run.
C9_OutOfRangeRejected ==
    \A w \in DOMAIN rq :
        LET r == rq[w] IN
        (r.body # None /\ r.pc # "validate" /\ GraphOutOfRange(r.body))
        => /\ r.graph = None
           /\ r.pc = "done"
           /\ r.response.status = 422

C9_Witness ==
    \E w \in DOMAIN rq :
        /\ rq[w].pc = "done"
        /\ rq[w].body # None
        /\ Len(rq[w].body.operations) = 1
        /\ rq[w].body.operations[1] = WFilter("blur", JFloat(15))
        /\ rq[w].response.status = 422

\* C10: for jpeg output in any letter case and a decoded source of mode RGBA
\* or P, the working image is RGB from the end of the normalization step on:
\* every executor call of the run is given an RGB image.
C10_JpegNormalized ==
    \A w \in DOMAIN rq :
        LET r == rq[w] IN
        (/\ InProcessImage(r)
         /\ r.format \in {"jpeg", "JPEG", "Jpeg"}
         /\ r.image_bytes.valid
         /\ r.image_bytes.img.mode \in {"RGBA", "P"})
        => /\ r.pc = "pi_loop" => r.img.mode = "RGB"
           /\ \A k \in 1..Len(r.calls) : r.calls[k].input.mode = "RGB"

C10_Witness ==
    \E w \in DOMAIN rq :
        /\ rq[w].pc = "pi_returned"
        /\ rq[w].format = "jpeg"
        /\ rq[w].image_bytes.img.mode = "RGBA"
        /\ Len(rq[w].calls) >= 2
        /\ rq[w].calls[1].input.mode = "RGB"
        /\ rq[w].calls[1].op.op = "adjust"

\* a Resize call with exactly one dimension given
OneDimension(c) ==
    /\ c.op.op = "resize"
    /\ (c.op.width.k = "int") # (c.op.height.k = "int")

\* the source image of the run of worker w
SourceOf(w) == rq[w].image_bytes.img

\* C11: a Resize with one dimension given scales the other by the aspect
\* ratio of the image it is applied to, the output of the operations before
\* it: on a current image of 200x100, width 100 gives 100x50 and height 50
\* gives 100x50, whatever the size of the source was.
C11_ResizeFromCurrent ==
    \A w \in DOMAIN rq :
        \A k \in 1..Len(rq[w].calls) :
            LET c == rq[w].calls[k] IN
            (/\ OneDimension(c)
             /\ c.input.width = 200 /\ c.input.height = 100
             /\ \/ c.op.width = JInt(100)
                \/ c.op.height = JInt(50))
            => /\ c.result.ok
               /\ c.result.img.width = 100
               /\ c.result.img.height = 50

C11_Witness ==
    \E w \in DOMAIN rq :
        /\ SourceOf(w).width = 400 /\ SourceOf(w).height = 300
        /\ Len(rq[w].calls) = 3
        /\ rq[w].calls[1].op.op = "crop"
        /\ rq[w].calls[2].op = [op |-> "resize", width |-> JNull,
                                height |-> JInt(50)]
        /\ rq[w].calls[2].input.width = 200
        /\ rq[w].calls[2].result.img.width = 100
        /\ rq[w].calls[3].op.op = "resize"
        /\ rq[w].calls[3].op.width = JInt(200)
        /\ rq[w].pc = "pi_returned"
        /\ rq[w].ret.img.width = 200 /\ rq[w].ret.img.height = 100

\* the dimension a one-dimension Resize call c was given, the current
\* dimension it corresponds to, the other current dimension, and the
\* dimension the call derived
Given(c) == IF c.op.width.k = "int" THEN c.op.width.v ELSE c.op.height.v
Current(c) == IF c.op.width.k = "int" THEN c.input.width ELSE c.input.height
Other(c) == IF c.op.width.k = "int" THEN c.input.height ELSE c.input.width
DerivedBy(c) ==
    IF c.op.width.k = "int" THEN c.result.img.height ELSE c.result.img.width

\* C12 as stated: the derived dimension is other_dim * ratio rounded to the
\* nearest integer.
C12_DerivedRounded ==
    \A w \in DOMAIN rq :
        \A k \in 1..Len(rq[w].calls) :
            LET c == rq[w].calls[k] IN
            (OneDimension(c) /\ c.result.ok)
            => 2 * Current(c) * DerivedBy(c) \in
                  (2 * Other(c) * Given(c) - Current(c) + 1)
                  ..(2 * Other(c) * Given(c) + Current(c))

\* C12: the derived dimension is other_dim * ratio truncated, never rounded
\* up: the exact quotient's integer part, or one less where the quotient is
\* a whole number that the double product falls short of.
C12_DerivedTruncated ==
    \A w \in DOMAIN rq :
        \A k \in 1..Len(rq[w].calls) :
            LET c == rq[w].calls[k]
                q == (Other(c) * Given(c)) \div Current(c)
            IN (OneDimension(c) /\ c.result.ok)
               => /\ DerivedBy(c) \in {q - 1, q}
                  /\ (Other(c) * Given(c)) % Current(c) # 0
                        => DerivedBy(c) = q

C12_Witness ==
    \E w \in DOMAIN rq :
        \E k \in 1..Len(rq[w].calls) :
            LET c == rq[w].calls[k] IN
            /\ c.op = [op |-> "resize", width |-> JInt(100), height |-> JNull]
            /\ c.input.width = 300 /\ c.input.height = 200
            /\ c.result.ok
            /\ c.result.img.width = 100 /\ c.result.img.height = 66

\* the executor calls made so far in the run of worker w
Calls(w) == {rq[w].calls[k] : k \in 1..Len(rq[w].calls)}

\* C13: Crop{x,y,width,height} never fails and returns an image of exactly
\* width x height pixels; its pixel (i,j) is the input pixel (x+i, y+j) where
\* that lies inside the input, and zero in every band where it does not:
\* black, transparent where the mode has alpha, palette entry 0 in a palette
\* image.
C13_CropRectangle ==
    \A w \in DOMAIN rq :
        \A c \in Calls(w) :
            c.op.op = "crop" =>
                /\ c.result.ok
                /\ c.result.img.width = c.op.width
                /\ c.result.img.height = c.op.height
                /\ c.result.img.mode = c.input.mode
                /\ Concrete(c.input) =>
                     /\ Concrete(c.result.img)
                     /\ Len(c.result.img.px.grid) = c.op.height
                     /\ \A j \in 0..(c.op.height - 1) :
                          /\ Len(c.result.img.px.grid[j + 1]) = c.op.width
                          /\ \A i \in 0..(c.op.width - 1) :
                               GetPixel(c.result.img, i, j) =
                                 IF /\ c.op.x + i < c.input.width
                                    /\ c.op.y + j < c.input.height
                                 THEN GetPixel(c.input, c.op.x + i,
                                               c.op.y + j)
                                 ELSE [b \in 1..Bands(c.input.mode) |-> 0]

C13_Witness ==
    \E w \in DOMAIN rq :
        \E c \in Calls(w) :
            /\ c.op = [op |-> "crop", x |-> 1, y |-> 1, width |-> 3,
                       height |-> 2]
            /\ c.input.mode = "RGBA"
            /\ c.input.width = 2 /\ c.input.height = 2
            /\ c.result.ok
            /\ c.result.img.width = 3 /\ c.result.img.height = 2
            /\ GetPixel(c.result.img, 0, 0) = <<255, 255, 255, 255>>
            /\ GetPixel(c.result.img, 2, 1) = <<0, 0, 0, 0>>

\* C14: Rotate{degrees:90} on a W x H image yields an H x W image without
\* padding, turned clockwise: input pixel (x,y) lands at (H-1-y, x).  The
\* graph [Crop{0,0,200,150}, Rotate{90}, Adjust{brightness,1.2}] on a 400x300
\* source with output format png yields a 150x200 image.
C14_RotateClockwise ==
    \A w \in DOMAIN rq :
        /\ \A c \in Calls(w) :
              (c.op.op = "rotate" /\ c.op.degrees = 900) =>
                 /\ c.result.ok
                 /\ c.result.img.width = c.input.height
                 /\ c.result.img.height = c.input.width
                 /\ Concrete(c.input) =>
                      /\ Concrete(c.result.img)
                      /\ \A x \in 0..(c.input.width - 1),
                            y \in 0..(c.input.height - 1) :
                            GetPixel(c.result.img, c.input.height - 1 - y, x)
                              = GetPixel(c.input, x, y)
        /\ (/\ rq[w].operations = ExampleGraph
            /\ rq[w].format = "png"
            /\ rq[w].pc \notin {"pi_open", "pi_convert", "pi_loop"})
           => /\ rq[w].pc = "pi_returned"
              /\ rq[w].ret.format = "PNG"
              /\ rq[w].ret.img.width = 150
              /\ rq[w].ret.img.height = 200

C14_Witness ==
    \E w \in DOMAIN rq :
        \E c \in Calls(w) :
            /\ c.op = [op |-> "rotate", degrees |-> 900]
            /\ c.input.mode = "RGB"
            /\ c.input.width = 3 /\ c.input.height = 2
            /\ c.result.ok
            /\ c.result.img.width = 2 /\ c.result.img.height = 3
            /\ GetPixel(c.input, 0, 0) = <<200, 100, 50>>
            /\ GetPixel(c.result.img, 1, 0) = <<200, 100, 50>>
            /\ GetPixel(c.result.img, 0, 2) = <<150, 150, 150>>

\* two completed runs on the same source with the same encoding, the first
\* rotating by 90 degrees and then cropping, the second cropping with the
\* same rectangle and then rotating
RotateCropSwapped(a, b) ==
    /\ a.image_bytes = b.image_bytes
    /\ a.format = b.format /\ a.quality = b.quality
    /\ Len(a.operations) = 2
    /\ a.operations[1] = [op |-> "rotate", degrees |-> 900]
    /\ a.operations[2].op = "crop"
    /\ b.operations = <<a.operations[2], a.operations[1]>>

\* C15: rotating by 90 degrees and then cropping gives another output than
\* cropping and then rotating; with a 400x300 source and Crop{0,0,200,150}
\* the first is 200x150 and the second 150x200.
C15_OrderSensitive ==
    \A i, j \in 1..Len(runs) :
        RotateCropSwapped(runs[i], runs[j]) =>
            /\ runs[i].ret # None /\ runs[j].ret # None
            /\ runs[i].ret # runs[j].ret
            /\ runs[i].ret.img.px # runs[j].ret.img.px
            /\ (runs[i].image_bytes.img.width = 400
                /\ runs[i].image_bytes.img.height = 300)
               => /\ runs[i].ret.img.width = 200
                  /\ runs[i].ret.img.height = 150
                  /\ runs[j].ret.img.width = 150
                  /\ runs[j].ret.img.height = 200

C15_Witness ==
    \E i, j \in 1..Len(runs) :
        /\ RotateCropSwapped(runs[i], runs[j])
        /\ runs[i].image_bytes.img.width = 400
        /\ runs[i].operations[2].width = 200
        /\ runs[i].ret.img.width = 200
        /\ runs[j].ret.img.width = 150

\* an Adjust call of one of the five enhancement types
Enhancement(c) ==
    /\ c.op.op = "adjust"
    /\ c.op.type \in {"brightness", "contrast", "saturation", "sharpness",
                      "exposure"}

\* C16: on every image, an enhancement Adjust with amount 1.0 returns an
\* image of the same size, mode and pixel values as its input, and exposure
\* gives what brightness gives for the same amount.
C16_IdentityAdjust ==
    \A w \in DOMAIN rq :
        \A c \in Calls(w) :
            Enhancement(c) =>
                /\ c.op.amount = 10 => c.result.ok /\ c.result.img = c.input
                /\ c.op.type = "exposure" =>
                     c.result = Executor(c.input,
                                         [c.op EXCEPT !.type = "brightness"])

\* the same on images that are not palette images
IdentityAdjustOffPalette ==
    \A w \in DOMAIN rq :
        \A c \in Calls(w) :
            (Enhancement(c) /\ c.input.mode # "P" /\ Concrete(c.input)) =>
                /\ c.op.amount = 10 => c.result.ok /\ c.result.img = c.input
                /\ c.op.type = "exposure" =>
                     c.result = Executor(c.input,
                                         [c.op EXCEPT !.type = "brightness"])

\* out is v * num / 100 rounded to an integer and clamped to 0..255
ScaledClamped(out, v, num) ==
    IF v * num <= 0 THEN out = 0
    ELSE IF v * num >= 25500 THEN out = 255
    ELSE 100 * out \in (v * num - 50)..(v * num + 50)

\* the pixel positions of img
Positions(img) == (0..(img.width - 1)) \X (0..(img.height - 1))

C18_SepiaBlend ==
    \A w \in DOMAIN rq :
        \A c \in Calls(w) :
            (/\ c.op.op = "filter" /\ c.op.type = "sepia"
             /\ c.input.mode = "RGB") =>
                /\ c.result.ok
                /\ c.result.img.mode = "RGB"
                /\ c.result.img.width = c.input.width
                /\ c.result.img.height = c.input.height
                /\ Concrete(c.input) =>
                     /\ Concrete(c.result.img)
                     /\ \A xy \in Positions(c.input) :
                          LET p == GetPixel(c.input, xy[1], xy[2])
                              q == GetPixel(c.result.img, xy[1], xy[2])
                              g == Luma(p, "RGB")
                              a == c.op.intensity
                          IN /\ a = 0 => q = p
                             /\ a = 10 =>
                                  /\ q[1] = g
                                  /\ 100 * q[2] \in (95 * g - 100)..(95 * g)
                                  /\ 100 * q[3] \in (82 * g - 100)..(82 * g)
                             /\ (0 < a /\ a < 10) =>
                                  \A b \in 1..3 :
                                     10 * q[b] \in
                                        ((10 - a) * p[b] + a * SepiaTone(g)[b]
                                         - 9)
                                        ..((10 - a) * p[b]
                                           + a * SepiaTone(g)[b])

C18_Witness ==
    \E w \in DOMAIN rq :
        \E c \in Calls(w) :
            /\ c.op = [op |-> "filter", type |-> "sepia", intensity |-> 5]
            /\ c.input.mode = "RGB" /\ Concrete(c.input)
            /\ GetPixel(c.input, 0, 0) = <<200, 100, 50>>
            /\ c.result.ok
            /\ GetPixel(c.result.img, 0, 0) = <<162, 108, 75>>

\* C19: Filter{grayscale} desaturates fully: whatever the intensity, every
\* pixel of the result has equal red, green and blue values.
C19_GrayscaleDesaturates ==
    \A w \in DOMAIN rq :
        \A c \in Calls(w) :
            (c.op.op = "filter" /\ c.op.type = "grayscale") =>
                /\ c.result.ok
                /\ (Concrete(c.input) /\ c.input.mode \in {"RGB", "RGBA"}) =>
                     /\ Concrete(c.result.img)
                     /\ \A xy \in Positions(c.result.img) :
                          LET q == GetPixel(c.result.img, xy[1], xy[2]) IN
                          Len(q) >= 3 => q[1] = q[2] /\ q[2] = q[3]

\* the font a successful TextOverlay call drew with
FontOf(c) == c.result.img.px.hist[Len(c.result.img.px.hist)].font

\* C20: font resolution never raises and ends with a usable font: the
\* font_family name, else the platform path, else the built-in default; no
\* failure of the first or the second attempt makes a TextOverlay fail.
C20_FontNeverRaises ==
    \A w \in DOMAIN rq :
        \A c \in Calls(w) :
            (/\ c.op.op = "text"
             /\ ColorPattern(c.op.color)
             /\ c.input.mode \in {"RGB", "RGBA"}) =>
                /\ c.result.ok
                /\ LET name == FontName(c.op.font_family)
                       path == FontPath(host.system, c.op.font_family)
                   IN FontOf(c).truetype =
                        IF host.freetype /\ name \in host.fonts THEN name
                        ELSE IF host.freetype /\ path \in host.fonts THEN path
                        ELSE None

\* the same where the first attempt can only fail with OSError
FontFallbackOnOSError ==
    \A w \in DOMAIN rq :
        \A c \in Calls(w) :
            (/\ c.op.op = "text"
             /\ host.freetype /\ ~HasNul(c.op.font_family)) =>
                /\ c.result.ok
                /\ LET name == FontName(c.op.font_family)
                       path == FontPath(host.system, c.op.font_family)
                   IN FontOf(c).truetype =
                        IF name \in host.fonts THEN name
                        ELSE IF path \in host.fonts THEN path
                        ELSE None

\* the step of process_image that raised in the run r
FailedStep(r) ==
    IF ~r.image_bytes.valid THEN "decode"
    ELSE IF r.calls # <<>> /\ ~r.calls[Len(r.calls)].result.ok THEN "executor"
    ELSE "encode"

\* C21: a failure reaches the caller classified: a DecodeError for source
\* bytes that do not decode, a ProcessingError (with the index and kind of
\* the first failing operation) for an executor failure, an EncodeError for
\* a failure of the encoder.
C21_FailuresClassified ==
    \A w \in DOMAIN rq :
        rq[w].pc = "pi_raised" =>
            rq[w].exc = CASE FailedStep(rq[w]) = "decode" -> "DecodeError"
                          [] FailedStep(rq[w]) = "executor" -> "ProcessingError"
                          [] FailedStep(rq[w]) = "encode" -> "EncodeError"

\* C22: after a successful commit_edit the blob and the record of the source
\* photo still hold the original image (the result is kept as another photo).
C22_CommitKeepsOriginal ==
    \A w \in DOMAIN rq :
        (rq[w].endpoint = "commit" /\ rq[w].pc = "done"
         /\ rq[w].response.status = 200) =>
            /\ blobs[BlobName] = rq[w].pre.blobs[BlobName]
            /\ photo = rq[w].pre.photo

\* C23: while and after preview_edit or download_edit runs, whatever its
\* outcome, the photo record and the blob under photo.blob_name are what they
\* were when the request arrived; preview adds at most blobs under fresh
\* previews/ names, download writes no blob.
C23_PreviewDownloadDoNotPersist ==
    \A w \in DOMAIN rq :
        rq[w].endpoint \in {"preview", "download"} =>
            /\ photo = rq[w].pre.photo
            /\ \A n \in DOMAIN rq[w].pre.blobs :
                  n \in DOMAIN blobs /\ blobs[n] = rq[w].pre.blobs[n]
            /\ DOMAIN blobs \ DOMAIN rq[w].pre.blobs \subseteq PreviewNames
            /\ rq[w].endpoint = "download" => blobs = rq[w].pre.blobs

\* a preview of an edit that changes the image was uploaded and answered
C23_Witness ==
    \E w \in DOMAIN rq :
        /\ rq[w].endpoint = "preview" /\ rq[w].pc = "done"
        /\ rq[w].response.status = 200
        /\ \E n \in DOMAIN blobs \ DOMAIN rq[w].pre.blobs :
              blobs[n] = rq[w].processed_bytes /\ blobs[n] # blobs[BlobName]

C25_InputNotMutated ==
    \A w \in DOMAIN rq :
        \A c \in Calls(w) : c.argument = c.input

\* a text overlay was drawn: the returned image differs from the one given
C25_Witness ==
    \E w \in DOMAIN rq :
        \E c \in Calls(w) :
            /\ c.op.op = "text" /\ c.result.ok
            /\ c.result.img # c.input
            /\ c.argument = c.input
            /\ \E d \in Calls(w) : d.op.op = "filter" /\ d.result.ok

\* C26: for png or webp output, where the source is not normalized,
\* Adjust{temperature}, Adjust{tint} and Filter{sepia} with an intensity
\* below 1.0 complete and return an image whatever the mode of the working
\* image is.
C26_ModeNeverFailsExecutor ==
    \A w \in DOMAIN rq :
        ~IsJpeg(rq[w].format) =>
            \A c \in Calls(w) :
                (\/ c.op.op = "adjust" /\ c.op.type \in {"temperature", "tint"}
                 \/ c.op.op = "filter" /\ c.op.type = "sepia"
                    /\ c.op.intensity < 10) =>
                    c.result.ok

\* C27: for jpeg output the working image that reaches the encoder is in a
\* mode without alpha channel and without palette, for every source that
\* decodes and every list of operations.
C27_JpegEncoderMode ==
    \A w \in DOMAIN rq :
        (/\ rq[w].pc = "pi_loop"
         /\ rq[w].i >= Len(rq[w].operations)
         /\ IsJpeg(rq[w].format)) =>
            /\ AlphaBand(rq[w].img.mode) = 0
            /\ rq[w].img.mode # "P"

\* C28: after every operation that was applied the working image is at
\* least one pixel wide and high, and a Resize with exactly one dimension
\* given derives a missing dimension of at least 1 from any current size (a
\* 1000x10 image with Resize{width:50}) and is applied.
C28_SizeAtLeastOne ==
    \A w \in DOMAIN rq :
        \A c \in Calls(w) :
            /\ c.result.ok =>
                  c.result.img.width >= 1 /\ c.result.img.height >= 1
            /\ OneDimension(c) =>
                  /\ ResizeSize(c.input, c.op)[1].v >= 1
                  /\ ResizeSize(c.input, c.op)[2].v >= 1
                  /\ c.result.ok

\* the content type that names the format of the bytes
MediaType(bytes) ==
    CASE bytes.format = "PNG" -> "image/png"
      [] bytes.format = "JPEG" -> "image/jpeg"
      [] bytes.format = "WEBP" -> "image/webp"

\* the row describes the bytes: their length, their format and their size
Describes(row, bytes) ==
    /\ row.file_size = ByteLength(bytes)
    /\ row.width = ExtractExifData(bytes).width
    /\ row.height = ExtractExifData(bytes).height
    /\ bytes.valid => row.content_type = MediaType(bytes)

\* C29: whenever no request is being served, so after every commit_edit
\* that ended with success or with a failure of the upload, of the SAS
\* generation or of the database commit, the photo record's file_size,
\* content_type, width and height describe the bytes stored under
\* photo.blob_name.
C29_BlobRecordConsistent ==
    (\A w \in DOMAIN rq : rq[w].pc \in {"idle", "done"}) =>
        Describes(photo, blobs[photo.blob_name])

\* the image after the operations from the i-th on were applied to img
RECURSIVE AllApplied(_, _, _)
AllApplied(img, operations, i) ==
    IF i >= Len(operations) THEN Ok(img)
    ELSE LET res == Executor(img, CurrentOp(operations, i)) IN
         IF res.ok THEN AllApplied(res.img, operations, i + 1) ELSE res

\* what one whole call process_image(bytes, graph.operations,
\* graph.output_format, graph.quality) returns
Edited(bytes, graph) ==
    LET opened == ImageOpen(bytes) IN
    IF ~opened.ok THEN opened
    ELSE LET img == IF opened.img.mode \in {"RGBA", "P"}
                       /\ IsJpeg(graph.output_format)
                    THEN ConvertRGB(opened.img) ELSE opened.img
             res == AllApplied(img, graph.operations, 0)
         IN IF res.ok THEN ImageSave(res.img, graph.output_format, graph.quality)
            ELSE res

\* the store and the record are what committing first and then second, one
\* after the other, leaves
SerialOutcome(first, second) ==
    LET one == Edited(CommitSource, first) IN
    /\ one.ok
    /\ LET two == Edited(one.bytes, second) IN
       /\ two.ok
       /\ blobs[BlobName] = two.bytes
       /\ Describes(photo, two.bytes)

\* C30: when two commit_edit requests for the same photo with different
\* graphs ran in two workers and both succeeded, the stored blob is one graph
\* applied to the result of the other and the record describes that blob, as
\* if the two commits had run one after the other in some order.
C30_CommitsSerializable ==
    (\A w \in DOMAIN rq :
        /\ rq[w].endpoint = "commit" /\ rq[w].pc = "done"
        /\ rq[w].response.status = 200) =>
        \E a \in DOMAIN rq : \E b \in DOMAIN rq \ {a} :
            SerialOutcome(rq[a].graph, rq[b].graph)

====
